---- MODULE Spec2Model ----
(***************************************************************************)
(* Defender's Dashboard: the simulation and reactive-rule core.            *)
(*                                                                         *)
(* gameModel (state, score, pending queue, levels, snapshot), eventBus,    *)
(* ruleEngine, escalationsController (uptime impact) and gameController    *)
(* (start / pause / reset, the two interval timers, player commands).      *)
(*                                                                         *)
(* Every JavaScript function is an operator from a record g of the whole   *)
(* program state to the record after the call; an action applies one       *)
(* timer callback or one player command to completion (the publish         *)
(* fan-outs are synchronous) and commits the result.  The presentation     *)
(* layer (uiController, briefsController, the walkthrough part of          *)
(* simulationController.js, themeController) is the environment: its       *)
(* subscriptions are not in the bus below and its commands are the Ui*     *)
(* actions.                                                                *)
(*                                                                         *)
(* Numbers: times are milliseconds as Date.now() gives them; the level     *)
(* multipliers 0.5 / 0.6 / 0.7 are kept in tenths; the score arithmetic    *)
(* is carried out in thousandths so that Math.round is exact.              *)
(***************************************************************************)
EXTENDS Integers, Sequences, FiniteSets, TLC

\* ------------------------------------------------------------------ bounds
\* events created over one behaviour (each gets a fresh object identity)
MaxEvents == 2
\* ui:handleEvent commands are accepted while the score is at most this
MaxScore == 1500
\* length of the rule list
MaxRules == 1
\* last instant of the model clock
Horizon == 45001

\* ------------------------------------------------------- program constants
\* gameModel.settings.escalationTimeout
escalationTimeout == 45000
\* gameModel.settings.simulationInterval
baseSimulationInterval == 9000
\* the period of the escalation-check interval
escalationCheckPeriod == 5000
\* the response-time ceiling of markEventAsHandled, in seconds
responseCeiling == 30
\* trafficData keeps at most this many samples
trafficDataLimit == 100
\* a timer handle field that holds no timer (null)
null == 0

Min(a, b) == IF a < b THEN a ELSE b
Max(a, b) == IF a > b THEN a ELSE b

\* Math.round on a value given in thousandths: floor(x + 0.5)
MathRound(milli) == (milli + 500) \div 1000

\* new Date().toLocaleTimeString(): the wall-clock second of the day
toLocaleTimeString(t) == (t \div 1000) % 86400

\* the instants the model clock takes; it only moves forward
Instants == {0, 1, escalationTimeout, Horizon}

\* ---------------------------------------------------------------- catalog
\* threats.js: type, category, baseSeverity, isNoise and the remediation list
possibleEvents ==
    << [type |-> "login_fail", category |-> "malicious", baseSeverity |-> 3,
        isNoise |-> FALSE, remediation |-> {"block_ip", "reset_password"}],
       [type |-> "traffic_spike", category |-> "malicious", baseSeverity |-> 5,
        isNoise |-> FALSE, remediation |-> {"block_ip", "rate_limit"}],
       [type |-> "process_spawn", category |-> "malicious", baseSeverity |-> 7,
        isNoise |-> FALSE, remediation |-> {"terminate_process", "block_ip"}],
       [type |-> "dns_query", category |-> "malicious", baseSeverity |-> 4,
        isNoise |-> FALSE, remediation |-> {"block_ip", "blacklist_domain"}],
       [type |-> "http_error", category |-> "malicious", baseSeverity |-> 3,
        isNoise |-> FALSE, remediation |-> {"patch_vulnerability", "block_ip"}],
       [type |-> "unauthorized_access", category |-> "malicious", baseSeverity |-> 6,
        isNoise |-> FALSE, remediation |-> {"revoke_access", "reset_password"}],
       [type |-> "service_failure", category |-> "malicious", baseSeverity |-> 8,
        isNoise |-> FALSE, remediation |-> {"restore_backup", "reboot_server"}],
       [type |-> "sql_injection", category |-> "malicious", baseSeverity |-> 6,
        isNoise |-> FALSE, remediation |-> {"patch_vulnerability", "block_ip"}],
       [type |-> "normal_activity", category |-> "noise", baseSeverity |-> 1,
        isNoise |-> TRUE, remediation |-> {}],
       [type |-> "routine_login", category |-> "noise", baseSeverity |-> 1,
        isNoise |-> TRUE, remediation |-> {}],
       [type |-> "scheduled_backup", category |-> "noise", baseSeverity |-> 1,
        isNoise |-> TRUE, remediation |-> {}],
       [type |-> "system_update", category |-> "noise", baseSeverity |-> 1,
        isNoise |-> TRUE, remediation |-> {}],
       [type |-> "false_positive_scan", category |-> "false_positive", baseSeverity |-> 2,
        isNoise |-> FALSE, remediation |-> {}],
       [type |-> "dev_testing", category |-> "false_positive", baseSeverity |-> 2,
        isNoise |-> FALSE, remediation |-> {}],
       [type |-> "maintenance_restart", category |-> "false_positive", baseSeverity |-> 2,
        isNoise |-> FALSE, remediation |-> {}] >>

\* the rows a generation tick of the model draws: login_fail, service_failure,
\* normal_activity
GeneratedRows == {1, 7, 9}

\* gameModel.levels; eventFrequencyMultiplier in tenths, noiseEventProbability
\* in hundredths
levels ==
    << [level |-> 1, eventFrequencyMultiplier |-> 5, noiseEventProbability |-> 10,
        targetScore |-> 1000],
       [level |-> 2, eventFrequencyMultiplier |-> 6, noiseEventProbability |-> 15,
        targetScore |-> 1500],
       [level |-> 3, eventFrequencyMultiplier |-> 7, noiseEventProbability |-> 20,
        targetScore |-> 2000] >>

\* the values the random generators of eventGenerator.js are drawn from
\* (a text that a rule compares is a sequence of its characters)
IPs == {"192.168.0.1"}
Counts == {6}
Volumes == {300}
Processes == {<<"m", "i", "n", "e", "r", ".", "b", "i", "n">>}
Domains == {<<"b", "a", "d", "s", "i", "t", "e", ".", "c", "o", "m">>}
Codes == {403}
Resources == {<<"/", "a", "p", "i", "/", "a", "d", "m", "i", "n", "_",
                "e", "n", "d", "p", "o", "i", "n", "t", "s">>}
Services == {<<"f", "i", "r", "e", "w", "a", "l", "l">>}

VARIABLES
    state,                   \* gameModel.state
    currentLevelIndex,       \* gameModel.currentLevelIndex (0-based, in thousandths)
    settings,                \* gameModel.settings (the level-dependent part)
    localStorage,            \* the 'gameState' item: <<>> or <<text>>
    storageAccess,           \* what the host's storage allows: "granted", "full"
                             \* (setItem throws) or "denied" (every access throws)
    simulationInterval,      \* gameController.simulationInterval (handle or null)
    escalationCheckInterval, \* gameController.escalationCheckInterval
    activeTimers,            \* the host's map of active interval timers
    eventBus,                \* eventBus.events: topic -> handlers in order
    now,                     \* Date.now()
    nextId,                  \* identity of the next event object created
    hist,                    \* history: what was handled / escalated so far, and
                             \* whether game:over was published since the last reset
    lastOp                   \* the last operation: its result and publications

vars == <<state, currentLevelIndex, settings, localStorage, storageAccess,
          simulationInterval, escalationCheckInterval, activeTimers, eventBus, now,
          nextId, hist, lastOp>>

\* ------------------------------------------------------------- gameModel
\* state.level and currentLevelIndex are numbers held in thousandths: the level
\* a stored record carries need not be whole
Thousand == 1000

\* the state object literal of gameModel / resetGameState
DefaultState ==
    [isRunning |-> FALSE, level |-> 1 * Thousand, score |-> 0, uptime |-> 100,
     rules |-> <<>>, levelProgress |-> 0, events |-> <<>>,
     pendingMaliciousEvents |-> <<>>, trafficData |-> <<>>]

\* one eventBus.publish call, recorded in call order
Pub(g, topic, data) ==
    [g EXCEPT !.out = Append(@, [topic |-> topic, data |-> data])]

\* a stored text is the JSON text of an object, its members in written order,
\* or a text that JSON.parse rejects; an object is a record whose DOMAIN is
\* its set of keys
JSONstringify(object, order) ==
    [parses |-> TRUE,
     members |-> [i \in 1..Len(order) |-> [key |-> order[i], value |-> object[order[i]]]]]

\* the object a text parses to: every key once, a repeated key takes its last value
JSONparse(text) ==
    LET members == text.members
        keys == {members[i].key : i \in 1..Len(members)}
        Last(k) == CHOOSE i \in 1..Len(members) :
                       /\ members[i].key = k
                       /\ \A j \in (i + 1)..Len(members) : members[j].key # k
    IN  [k \in keys |-> members[Last(k)].value]

hasOwnProperty(object, prop) == prop \in DOMAIN object

\* the keys of the stateToSave literal, in the order it lists them
stateToSaveKeys == <<"level", "score", "uptime", "rules", "levelProgress">>

\* variant: a failed write is swallowed without a notification
saveGameState_Silent(g) ==
    LET stateToSave == [level |-> g.state.level, score |-> g.state.score,
                        uptime |-> g.state.uptime, rules |-> g.state.rules,
                        levelProgress |-> g.state.levelProgress]
    IN  IF g.storageAccess # "granted"
        THEN g
        ELSE [g EXCEPT !.localStorage = << JSONstringify(stateToSave, stateToSaveKeys) >>]

\* setItem throws when the storage is full or denied; the catch publishes
\* notification:error
saveGameState(g) ==
    LET stateToSave == [level |-> g.state.level, score |-> g.state.score,
                        uptime |-> g.state.uptime, rules |-> g.state.rules,
                        levelProgress |-> g.state.levelProgress]
    IN  IF g.storageAccess # "granted"
        THEN Pub(g, "notification:error", <<"save">>)
        ELSE [g EXCEPT !.localStorage = << JSONstringify(stateToSave, stateToSaveKeys) >>]

validProperties == <<"level", "score", "uptime", "rules", "levelProgress">>

\* variant: every key of the stored object is copied, listed or not
CopyValid_AnyKey(current, savedState, i) ==
    [k \in DOMAIN current \cup DOMAIN savedState |->
        IF k \in DOMAIN savedState THEN savedState[k] ELSE current[k]]

\* validProperties.forEach from the i-th on: a listed key that the stored
\* object has is copied as it is
RECURSIVE CopyValid(_, _, _)
CopyValid(current, savedState, i) ==
    IF i > Len(validProperties)
    THEN current
    ELSE LET prop == validProperties[i]
         IN  CopyValid(IF hasOwnProperty(savedState, prop)
                       THEN [current EXCEPT ![prop] = savedState[prop]]
                       ELSE current,
                       savedState, i + 1)

\* no item, or getItem or JSON.parse throws: the else branch and the catch do
\* the same
loadGameState(g) ==
    IF g.storageAccess # "denied" /\ g.localStorage # <<>> /\ g.localStorage[1].parses
    THEN LET savedState == JSONparse(g.localStorage[1])
             g1 == [g EXCEPT !.state = CopyValid(@, savedState, 1)]
             g2 == [g1 EXCEPT !.currentLevelIndex = g1.state.level - 1 * Thousand]
         IN  IF \/ g2.currentLevelIndex < 0
                \/ g2.currentLevelIndex >= Len(levels) * Thousand
             THEN [g2 EXCEPT !.currentLevelIndex = 0, !.state.level = 1 * Thousand]
             ELSE g2
    ELSE [g EXCEPT !.currentLevelIndex = 0, !.state.level = 1 * Thousand]

\* this.levels[this.currentLevelIndex]: <<element>>, or <<>> for undefined
getCurrentLevel(g) ==
    LET i == g.currentLevelIndex
    IN  IF i % Thousand = 0 /\ i \div Thousand \in 0..(Len(levels) - 1)
        THEN << levels[i \div Thousand + 1] >>
        ELSE <<>>

\* reading a property of undefined throws before anything is assigned
applyLevelSettings(g) ==
    LET currentLevel == getCurrentLevel(g)
    IN  IF currentLevel = <<>>
        THEN [g EXCEPT !.thrown = TRUE]
        ELSE Pub([g EXCEPT !.settings.eventFrequencyMultiplier =
                               currentLevel[1].eventFrequencyMultiplier],
                 "settings:updated", <<>>)

\* gameModel.init
gameModel_init(g) == applyLevelSettings(loadGameState(g))

\* variant: the reset state is not written to storage
resetGameState_NoSave(g) ==
    LET g1 == [g EXCEPT !.state = DefaultState, !.currentLevelIndex = 0]
    IN  Pub(g1, "gameState:reset", <<>>)

resetGameState(g) ==
    LET g1 == [g EXCEPT !.state = DefaultState, !.currentLevelIndex = 0]
    IN  Pub(saveGameState(g1), "gameState:reset", <<>>)

\* variant: the points are cut to a whole number instead of rounded
calculateScore_Truncates(g, detectedMaliciousEvents, responseSpeedMilli, networkUptime, falsePositives) ==
    LET scoreMilli == detectedMaliciousEvents * 100000 + responseSpeedMilli * 5
                      + networkUptime * 10000 - falsePositives * 50000
        earnedPoints == Max(0, scoreMilli \div 1000)
        g1 == saveGameState([g EXCEPT !.state.score = @ + earnedPoints])
    IN  [Pub(g1, "score:updated", <<g1.state.score, earnedPoints>>)
            EXCEPT !.ret = earnedPoints]

\* responseSpeed is passed in thousandths of a second
calculateScore(g, detectedMaliciousEvents, responseSpeedMilli, networkUptime, falsePositives) ==
    LET scoreMilli == detectedMaliciousEvents * 100000 + responseSpeedMilli * 5
                      + networkUptime * 10000 - falsePositives * 50000
        earnedPoints == Max(0, MathRound(scoreMilli))
        g1 == saveGameState([g EXCEPT !.state.score = @ + earnedPoints])
    IN  [Pub(g1, "score:updated", <<g1.state.score, earnedPoints>>)
            EXCEPT !.ret = earnedPoints]

\* the predicate of the find in markEventAsHandled
SameKey(p, event) ==
    /\ p.event.timestamp = event.timestamp
    /\ p.event.type = event.type
    /\ p.event.ip = event.ip

\* Array.prototype.find: index of the first match, 0 when there is none
FindPending(pending, event) ==
    LET hits == {i \in 1..Len(pending) : SameKey(pending[i], event)}
    IN  IF hits = {} THEN 0 ELSE CHOOSE i \in hits : \A j \in hits : i <= j

markEventAsHandled(g, event, t) ==
    LET i == FindPending(g.state.pendingMaliciousEvents, event)
    IN  IF i = 0
        THEN [g EXCEPT !.ret = FALSE]
        ELSE LET pendingEvent == g.state.pendingMaliciousEvents[i]
                 g1 == [g EXCEPT !.state.pendingMaliciousEvents[i].handled = TRUE]
                 responseTimeMilli == Min(responseCeiling * 1000, t - pendingEvent.timestamp)
                 responseSpeedMilli == Max(0, responseCeiling * 1000 - responseTimeMilli)
                 g2 == calculateScore(g1, 1, responseSpeedMilli, g1.state.uptime, 0)
             IN  [Pub(g2, "event:handled", <<event.id>>) EXCEPT !.ret = TRUE]

\* ------------------------------------------------------------ ruleEngine
\* strings that are parsed are sequences of one-character strings
Digits == <<"0", "1", "2", "3", "4", "5", "6", "7", "8", "9">>
IsDigit(c) == \E d \in 1..10 : Digits[d] = c
DigitValue(c) == (CHOOSE d \in 1..10 : Digits[d] = c) - 1

RECURSIVE ParseDigits(_, _, _)
ParseDigits(s, i, acc) ==
    IF i > Len(s) \/ ~IsDigit(s[i])
    THEN acc
    ELSE ParseDigits(s, i + 1, acc * 10 + DigitValue(s[i]))

RECURSIVE SkipSpaces(_, _)
SkipSpaces(s, i) == IF i <= Len(s) /\ s[i] = " " THEN SkipSpaces(s, i + 1) ELSE i

\* parseInt of a string: <<n>>, or <<>> for NaN
parseInt(s) ==
    LET i == SkipSpaces(s, 1)
        neg == i <= Len(s) /\ s[i] = "-"
        j == IF i <= Len(s) /\ s[i] \in {"-", "+"} THEN i + 1 ELSE i
    IN  IF j > Len(s) \/ ~IsDigit(s[j])
        THEN <<>>
        ELSE << (IF neg THEN -1 ELSE 1) * ParseDigits(s, j, 0) >>

isNaN(x) == x = <<>>

\* String.prototype.trim().length > 0
TrimmedNonEmpty(name) == \E i \in 1..Len(name) : name[i] # " "

\* String.prototype.includes
includes(text, keyword) ==
    \E i \in 0..(Len(text) - Len(keyword)) : SubSeq(text, i + 1, i + Len(keyword)) = keyword

\* variant: the threshold itself already matches
Greater_OrEqual(a, b) == ~isNaN(a) /\ ~isNaN(b) /\ a[1] >= b[1]

\* a > b and a >= b on numbers, false when either side is NaN
Greater(a, b) == ~isNaN(a) /\ ~isNaN(b) /\ a[1] > b[1]
GreaterEq(a, b) == ~isNaN(a) /\ ~isNaN(b) /\ a[1] >= b[1]

validateRule(rule) ==
    CASE rule.conditionType \in {"login_fail", "traffic_spike"} ->
            rule.threshold # <<>> /\ ~isNaN(parseInt(rule.threshold))
      [] rule.conditionType = "process_spawn" ->
            rule.processName # <<>> /\ TrimmedNonEmpty(rule.processName)
      [] rule.conditionType = "dns_query" ->
            rule.domainKeyword # <<>> /\ TrimmedNonEmpty(rule.domainKeyword)
      [] rule.conditionType = "http_error" ->
            /\ rule.errorCodeThreshold # <<>>
            /\ ~isNaN(parseInt(rule.errorCodeThreshold))
            /\ GreaterEq(parseInt(rule.errorCodeThreshold), <<100>>)
            /\ GreaterEq(<<599>>, parseInt(rule.errorCodeThreshold))
      [] rule.conditionType = "unauthorized_access" ->
            rule.resourceKeyword # <<>> /\ TrimmedNonEmpty(rule.resourceKeyword)
      [] rule.conditionType = "service_failure" ->
            rule.serviceName # <<>> /\ TrimmedNonEmpty(rule.serviceName)
      [] OTHER -> FALSE

\* variant: the comparisons without the test of the event's type
evaluateRule_AnyType(rule, event) ==
    CASE rule.conditionType = "login_fail" ->
            Greater(<<event.count>>, parseInt(rule.threshold))
      [] rule.conditionType = "traffic_spike" ->
            Greater(<<event.volume>>, parseInt(rule.threshold))
      [] rule.conditionType = "process_spawn" ->
            event.process # <<>> /\ event.process = rule.processName
      [] rule.conditionType = "dns_query" ->
            event.domain # <<>> /\ includes(event.domain, rule.domainKeyword)
      [] rule.conditionType = "http_error" ->
            GreaterEq(<<event.code>>, parseInt(rule.errorCodeThreshold))
      [] rule.conditionType = "unauthorized_access" ->
            event.resource # <<>> /\ includes(event.resource, rule.resourceKeyword)
      [] rule.conditionType = "service_failure" ->
            event.service = rule.serviceName
      [] OTHER -> FALSE

evaluateRule(rule, event) ==
    CASE rule.conditionType = "login_fail" ->
            event.type = "login_fail" /\ Greater(<<event.count>>, parseInt(rule.threshold))
      [] rule.conditionType = "traffic_spike" ->
            event.type = "traffic_spike" /\ Greater(<<event.volume>>, parseInt(rule.threshold))
      [] rule.conditionType = "process_spawn" ->
            /\ event.type = "process_spawn"
            /\ event.process # <<>>
            /\ event.process = rule.processName
      [] rule.conditionType = "dns_query" ->
            /\ event.type = "dns_query"
            /\ event.domain # <<>>
            /\ includes(event.domain, rule.domainKeyword)
      [] rule.conditionType = "http_error" ->
            /\ event.type = "http_error"
            /\ GreaterEq(<<event.code>>, parseInt(rule.errorCodeThreshold))
      [] rule.conditionType = "unauthorized_access" ->
            /\ event.type = "unauthorized_access"
            /\ event.resource # <<>>
            /\ includes(event.resource, rule.resourceKeyword)
      [] rule.conditionType = "service_failure" ->
            event.type = "service_failure" /\ event.service = rule.serviceName
      [] OTHER -> FALSE

\* variant: the search stops at the first rule that matches
checkEventAgainstRules_First(g, event) ==
    LET hits == {i \in 1..Len(g.state.rules) : evaluateRule(g.state.rules[i], event)}
    IN  IF hits = {} THEN <<>> ELSE << g.state.rules[CHOOSE i \in hits : \A j \in hits : i <= j] >>

\* triggeredRules after the forEach over gameModel.state.rules
checkEventAgainstRules(g, event) ==
    SelectSeq(g.state.rules, LAMBDA rule : evaluateRule(rule, event))

handleNewEvent(g, event, t) ==
    LET triggeredRules == checkEventAgainstRules(g, event)
    IN  IF Len(triggeredRules) > 0
        THEN Pub(markEventAsHandled(g, event, t), "rules:triggered",
                 <<event.id, triggeredRules>>)
        ELSE g

\* variant: the rule is stored before it is validated
addRule_StoresFirst(g, rule) ==
    LET g1 == saveGameState([g EXCEPT !.state.rules = Append(@, rule)])
    IN  IF ~validateRule(rule)
        THEN [Pub(g1, "notification:error", <<>>) EXCEPT !.ret = FALSE]
        ELSE [Pub(g1, "rule:added", <<>>) EXCEPT !.ret = TRUE]

\* variant: the rule is stored in memory and the snapshot is not written
addRule_NoSave(g, rule) ==
    IF ~validateRule(rule)
    THEN [Pub(g, "notification:error", <<>>) EXCEPT !.ret = FALSE]
    ELSE [Pub([g EXCEPT !.state.rules = Append(@, rule)], "rule:added", <<>>)
             EXCEPT !.ret = TRUE]

addRule(g, rule) ==
    IF ~validateRule(rule)
    THEN [Pub(g, "notification:error", <<>>) EXCEPT !.ret = FALSE]
    ELSE LET g1 == saveGameState([g EXCEPT !.state.rules = Append(@, rule)])
         IN  [Pub(g1, "rule:added", <<>>) EXCEPT !.ret = TRUE]

\* ------------------------------------------------- escalationsController
\* variant: the base impact for every type, without the per-type adjustment
calculateSimulatedDamage_Flat(event) ==
    [uptimeImpact |-> event.severity * 2]

calculateSimulatedDamage(event) ==
    LET uptimeImpact == event.severity * 2
    IN  [uptimeImpact |->
            CASE event.type = "traffic_spike" -> (uptimeImpact * 3) \div 2
              [] event.type = "service_failure" -> uptimeImpact * 2
              [] OTHER -> uptimeImpact]

applyEscalationImpact(g, event) ==
    LET damage == calculateSimulatedDamage(event)
        uptime == Max(0, g.state.uptime - damage.uptimeImpact)
        g1 == [g EXCEPT !.state.uptime = uptime]
        g2 == Pub(g1, "uptime:updated", <<uptime, event.type, event.id>>)
        g3 == IF uptime <= 0 THEN Pub(g2, "game:over", <<event.id>>) ELSE g2
    IN  CHOOSE r \in {saveGameState(x) : x \in {g3}} : TRUE

\* the keys of escalationScenarios: the types that have a scenario
escalationScenarios ==
    {"login_fail", "traffic_spike", "dns_query", "http_error", "unauthorized_access",
     "service_failure", "process_spawn", "sql_injection"}

\* the attackVectorDescription of the scenario of a type that has one
attackVectorDescription(type) ==
    CASE type = "login_fail" ->
           "Brute force attack detected. Unauthorized access attempt may lead to account compromise."
      [] type = "traffic_spike" ->
           "Distributed Denial of Service (DDoS) attack suspected. High traffic volume may overwhelm servers."
      [] type = "dns_query" ->
           "Command and Control (C2) communication detected. Malicious domain query suggests botnet activity."
      [] type = "http_error" ->
           "Web application attack (e.g., SQL injection) detected via error codes."
      [] type = "unauthorized_access" ->
           "Unauthorized access to sensitive resource detected, likely an insider threat or exploit."
      [] type = "service_failure" ->
           "Critical service disruption, possibly due to a ransomware or exploit attack."
      [] type = "process_spawn" ->
           "Malicious process execution detected, indicative of malware or rootkit activity."
      [] type = "sql_injection" ->
           "SQL injection attack detected targeting database through web application."

defaultScenario == [attackVectorDescription |-> "Unknown attack vector detected."]

\* escalationScenarios[event.type] || { default }
getScenarioForEvent(event) ==
    IF event.type \in escalationScenarios
    THEN [attackVectorDescription |-> attackVectorDescription(event.type)]
    ELSE defaultScenario

\* utils.sanitizeString: the empty string for a falsy argument, else the text
\* as innerHTML gives it back; the scenario texts hold none of the characters
\* & < > that innerHTML rewrites
sanitizeString(str) == IF str = "" THEN "" ELSE str

generateEscalationData(event) ==
    [eventType |-> event.type,
     attackVector |-> sanitizeString(getScenarioForEvent(event).attackVectorDescription),
     severity |-> IF event.severity = 0 THEN 5 ELSE event.severity,
     simulatedDamage |-> calculateSimulatedDamage(event)]

\* data.events.forEach of handleEscalatedEvents, from the i-th event on; x is
\* the state once escalation:started is published
RECURSIVE ForEachEscalated(_, _, _)
ForEachEscalated(g, escalated, i) ==
    IF i > Len(escalated)
    THEN g
    ELSE ForEachEscalated(
             CHOOSE r \in {applyEscalationImpact(x, escalated[i]) :
                            x \in {Pub(g, "escalation:started",
                                       <<escalated[i].id,
                                         generateEscalationData(escalated[i]).attackVector>>)}} : TRUE,
             escalated, i + 1)

handleEscalatedEvents(g, escalated) == ForEachEscalated(g, escalated, 1)

\* --------------------------------------------------------------- eventBus
\* callback(data) for a handler of the rule engine or the escalations controller
Invoke(handler, g, data, t) ==
    CASE handler = "ruleEngine.handleNewEvent" -> handleNewEvent(g, data, t)
      [] handler = "escalationsController.handleEscalatedEvents" ->
            handleEscalatedEvents(g, data)
      [] OTHER -> g

\* this.events[eventName].forEach(callback => callback(data)), from the i-th on
RECURSIVE ForEachHandler(_, _, _, _, _)
ForEachHandler(g, handlers, i, data, t) ==
    IF i > Len(handlers)
    THEN g
    ELSE ForEachHandler(CHOOSE r \in {Invoke(handlers[i], x, data, t) : x \in {g}} : TRUE,
                        handlers, i + 1, data, t)

\* eventBus.publish on a topic the core itself subscribes to
publish(g, topic, summary, data, t) ==
    ForEachHandler(Pub(g, topic, summary), g.eventBus[topic], 1, data, t)

\* ------------------------------------------- gameModel: events and sweeps
PendingEntry(event, t) == [event |-> event, timestamp |-> t, handled |-> FALSE]

\* variant: the newest sample is dropped at capacity
PushTraffic_DropsNewest(trafficData, t) ==
    IF Len(trafficData) >= trafficDataLimit
    THEN trafficData
    ELSE Append(trafficData, [timestamp |-> t, packetCount |-> 1])

\* trafficData.push, then shift when over the limit
PushTraffic(trafficData, t) ==
    LET pushed == Append(trafficData, [timestamp |-> t, packetCount |-> 1])
    IN  IF Len(pushed) > trafficDataLimit THEN Tail(pushed) ELSE pushed

\* variant: every event gets a pending entry, whatever its category
addEvent_QueuesAll(g, event, t) ==
    LET g1 == [g EXCEPT !.state.events = Append(@, event)]
        g2 == [g1 EXCEPT !.state.pendingMaliciousEvents =
                             Append(@, PendingEntry(event, t))]
        g3 == [g2 EXCEPT !.state.trafficData = PushTraffic(@, t)]
    IN  publish(g3, "event:added", <<event.id>>, event, t)

\* variant: event:added is published before the event is stored
addEvent_PublishesFirst(g, event, t) ==
    LET g0 == publish(g, "event:added", <<event.id>>, event, t)
        g1 == [g0 EXCEPT !.state.events = Append(@, event)]
        g2 == IF event.category = "malicious"
              THEN [g1 EXCEPT !.state.pendingMaliciousEvents =
                                  Append(@, PendingEntry(event, t))]
              ELSE g1
    IN  [g2 EXCEPT !.state.trafficData = PushTraffic(@, t)]

addEvent(g, event, t) ==
    LET g1 == [g EXCEPT !.state.events = Append(@, event)]
        g2 == IF event.category = "malicious"
              THEN [g1 EXCEPT !.state.pendingMaliciousEvents =
                                  Append(@, PendingEntry(event, t))]
              ELSE g1
        g3 == [g2 EXCEPT !.state.trafficData = PushTraffic(@, t)]
    IN  publish(g3, "event:added", <<event.id>>, event, t)

\* variant: the timeout tested strictly, one millisecond late
TimeToEscalate_Strict(pendingEventInfo, t) ==
    t - pendingEventInfo.timestamp > escalationTimeout

\* timeElapsed >= this.settings.escalationTimeout
TimeToEscalate(pendingEventInfo, t) ==
    t - pendingEventInfo.timestamp >= escalationTimeout

Ids(evs) == [i \in 1..Len(evs) |-> evs[i].id]

\* variant: the sweep escalates but leaves the handled entries in place
checkEscalations_KeepsHandled(g, t) ==
    LET pending == g.state.pendingMaliciousEvents
        due == SelectSeq(pending, LAMBDA p : ~p.handled /\ TimeToEscalate(p, t))
        escalatedEvents == [i \in 1..Len(due) |-> due[i].event]
        kept == SelectSeq(pending, LAMBDA p : p.handled \/ ~TimeToEscalate(p, t))
        g1 == [g EXCEPT !.state.pendingMaliciousEvents = kept]
        g2 == IF Len(escalatedEvents) > 0
              THEN publish(g1, "events:escalated", Ids(escalatedEvents), escalatedEvents, t)
              ELSE g1
    IN  [g2 EXCEPT !.escalated = Ids(escalatedEvents)]

\* variant: the sweep escalates by dwell time alone, handled or not
checkEscalations_EscalatesHandled(g, t) ==
    LET pending == g.state.pendingMaliciousEvents
        due == SelectSeq(pending, LAMBDA p : TimeToEscalate(p, t))
        escalatedEvents == [i \in 1..Len(due) |-> due[i].event]
        kept == SelectSeq(pending, LAMBDA p : ~p.handled /\ ~TimeToEscalate(p, t))
        g1 == [g EXCEPT !.state.pendingMaliciousEvents = kept]
        g2 == IF Len(escalatedEvents) > 0
              THEN publish(g1, "events:escalated", Ids(escalatedEvents), escalatedEvents, t)
              ELSE g1
    IN  [g2 EXCEPT !.escalated = Ids(escalatedEvents)]

checkEscalations(g, t) ==
    LET pending == g.state.pendingMaliciousEvents
        due == SelectSeq(pending, LAMBDA p : ~p.handled /\ TimeToEscalate(p, t))
        escalatedEvents == [i \in 1..Len(due) |-> due[i].event]
        kept == SelectSeq(pending, LAMBDA p : ~p.handled /\ ~TimeToEscalate(p, t))
        g1 == [g EXCEPT !.state.pendingMaliciousEvents = kept]
        g2 == IF Len(escalatedEvents) > 0
              THEN publish(g1, "events:escalated", Ids(escalatedEvents), escalatedEvents, t)
              ELSE g1
    IN  [g2 EXCEPT !.escalated = Ids(escalatedEvents)]

startNextLevel(g) ==
    IF g.currentLevelIndex < (Len(levels) - 1) * Thousand
    THEN LET g1 == [g EXCEPT !.currentLevelIndex = @ + 1 * Thousand]
             g2 == [g1 EXCEPT !.state.level = g1.currentLevelIndex + 1 * Thousand,
                              !.state.levelProgress = 0]
             g3 == applyLevelSettings(saveGameState(g2))
         IN  IF g3.thrown
             THEN g3
             ELSE [Pub(g3, "level:changed", <<g3.state.level>>) EXCEPT !.ret = TRUE]
    ELSE [Pub(applyLevelSettings(resetGameState(g)), "game:completed", <<>>)
             EXCEPT !.ret = FALSE]

\* ---------------------------------------------------------- eventGenerator
\* generateEvent with addTypeSpecificProperties; a field a type does not get is 0 / <<>>
generateEvent(id, t, template, ip, count, volume, process, domain, code, resource, service) ==
    [id |-> id,
     timestamp |-> toLocaleTimeString(t),
     type |-> template.type,
     severity |-> template.baseSeverity,
     isNoise |-> template.isNoise,
     category |-> template.category,
     remediation |-> template.remediation,
     ip |-> ip,
     count |-> IF template.type = "login_fail" THEN count ELSE 0,
     volume |-> IF template.type = "traffic_spike" THEN volume ELSE 0,
     process |-> IF template.type = "process_spawn" THEN process ELSE <<>>,
     domain |-> IF template.type = "dns_query" THEN domain ELSE <<>>,
     code |-> IF template.type = "http_error" THEN code ELSE 0,
     resource |-> IF template.type = "unauthorized_access" THEN resource ELSE <<>>,
     service |-> IF template.type = "service_failure" THEN service ELSE <<>>]

\* ---------------------------------------------------------- gameController
Topics ==
    {"event:added", "events:escalated", "ui:startGame", "ui:pauseGame",
     "ui:resetGame", "ui:testRule", "ui:saveRule", "ui:handleEvent",
     "request:gameState"}

subscribe(g, eventName, callback) ==
    [g EXCEPT !.eventBus[eventName] = Append(@, callback)]

\* eventBus.reset
resetBus(g) == [g EXCEPT !.eventBus = [topic \in Topics |-> <<>>]]

setupEventSubscriptions(g) ==
    LET g1 == subscribe(g, "ui:startGame", "gameController.startSimulation")
        g2 == subscribe(g1, "ui:pauseGame", "gameController.pauseSimulation")
        g3 == subscribe(g2, "ui:resetGame", "gameController.resetGame")
        g4 == subscribe(g3, "ui:testRule", "gameController.testRule")
        g5 == subscribe(g4, "ui:saveRule", "gameController.saveRule")
        g6 == subscribe(g5, "ui:handleEvent", "gameController.handleEvent")
    IN  subscribe(g6, "request:gameState", "gameController.getGameState")

\* setInterval returns a handle greater than zero that no active timer has
FreshHandle(timers) ==
    LET used == {tm.id : tm \in timers}
    IN  CHOOSE h \in 1..(Cardinality(timers) + 1) :
            h \notin used /\ \A k \in 1..(h - 1) : k \in used

setInterval(timers, kind, period) ==
    timers \cup {[id |-> FreshHandle(timers), kind |-> kind, period |-> period]}

clearInterval(timers, handle) == {tm \in timers : tm.id # handle}

\* variant: no test of the handle, every call creates both timers
startSimulation_NoGuard(g) ==
    LET g1 == Pub([g EXCEPT !.state.isRunning = TRUE], "game:started", <<>>)
        period == (baseSimulationInterval * g1.settings.eventFrequencyMultiplier) \div 10
        h1 == FreshHandle(g1.activeTimers)
        g2 == [g1 EXCEPT !.activeTimers = setInterval(@, "generation", period),
                         !.simulationInterval = h1]
        h2 == FreshHandle(g2.activeTimers)
    IN  [g2 EXCEPT !.activeTimers = setInterval(@, "escalationCheck", escalationCheckPeriod),
                   !.escalationCheckInterval = h2]

startSimulation(g) ==
    IF g.simulationInterval # null
    THEN g
    ELSE LET g1 == Pub([g EXCEPT !.state.isRunning = TRUE], "game:started", <<>>)
             period == (baseSimulationInterval * g1.settings.eventFrequencyMultiplier) \div 10
             h1 == FreshHandle(g1.activeTimers)
             g2 == [g1 EXCEPT !.activeTimers = setInterval(@, "generation", period),
                              !.simulationInterval = h1]
             h2 == FreshHandle(g2.activeTimers)
         IN  [g2 EXCEPT !.activeTimers = setInterval(@, "escalationCheck", escalationCheckPeriod),
                        !.escalationCheckInterval = h2]

\* variant: only the generation timer is cleared
pauseSimulation_KeepsSweep(g) ==
    LET g1 == IF g.simulationInterval # null
              THEN [g EXCEPT !.activeTimers = clearInterval(@, g.simulationInterval),
                             !.simulationInterval = null]
              ELSE g
    IN  Pub([g1 EXCEPT !.state.isRunning = FALSE], "game:paused", <<>>)

\* variant: a pause gives up the entries that wait for the timeout
pauseSimulation_DropsPending(g) ==
    LET g1 == IF g.simulationInterval # null
              THEN [g EXCEPT !.activeTimers = {}, !.simulationInterval = null,
                             !.escalationCheckInterval = null]
              ELSE g
    IN  Pub([g1 EXCEPT !.state.isRunning = FALSE, !.state.pendingMaliciousEvents = <<>>],
            "game:paused", <<>>)

pauseSimulation(g) ==
    LET g1 == IF g.simulationInterval # null
              THEN [g EXCEPT !.activeTimers = clearInterval(@, g.simulationInterval),
                             !.simulationInterval = null]
              ELSE g
        g2 == IF g1.escalationCheckInterval # null
              THEN [g1 EXCEPT !.activeTimers = clearInterval(@, g1.escalationCheckInterval),
                              !.escalationCheckInterval = null]
              ELSE g1
    IN  Pub([g2 EXCEPT !.state.isRunning = FALSE], "game:paused", <<>>)

resetGame(g) ==
    Pub(setupEventSubscriptions(resetBus(resetGameState(pauseSimulation(g)))),
        "game:reset", <<>>)

\* ruleEngine.testRule(rule, testEvents): the matches, in the order of testEvents
ruleEngine_testRule(rule, testEvents) ==
    LET hits == SelectSeq(testEvents, LAMBDA event : evaluateRule(rule, event))
    IN  [i \in 1..Len(hits) |-> [event |-> hits[i], rule |-> rule]]

\* Array.prototype.slice(-n): the last n elements, all of them when there are fewer
SliceLast(events, n) ==
    IF Len(events) <= n THEN events ELSE SubSeq(events, Len(events) - n + 1, Len(events))

\* variant: the rule is tested against the whole log
testRule_WholeLog(g, rule) ==
    Pub(g, "rule:testResults", <<rule, ruleEngine_testRule(rule, g.state.events)>>)

\* gameController.testRule
testRule(g, rule) ==
    LET testEvents == SliceLast(g.state.events, 10)
        results == ruleEngine_testRule(rule, testEvents)
    IN  Pub(g, "rule:testResults", <<rule, results>>)

saveRule(g, rule) ==
    LET g1 == addRule(g, rule)
    IN  IF g1.ret THEN Pub(g1, "notification:success", <<>>) ELSE g1

\* the effectiveness check of handleEvent
IsEffective(event, action) ==
    \/ action \in event.remediation
    \/ /\ action = "block_ip"
       /\ event.type \in {"dns_query", "http_error", "traffic_spike", "sql_injection"}
    \/ /\ action = "reboot_server"
       /\ event.type \in {"service_failure", "process_spawn"}
    \/ /\ action = "reset_password"
       /\ event.type \in {"login_fail", "unauthorized_access"}

handleEvent(g, event, action, t) ==
    CASE action = "stop_timer" -> Pub(pauseSimulation(g), "notification:info", <<>>)
      [] action = "clear_log" -> Pub(g, "notification:success", <<>>)
      [] action = "apply_rule" ->
            Pub(markEventAsHandled(g, event, t), "notification:success", <<>>)
      [] OTHER ->
            IF IsEffective(event, action)
            THEN LET g1 == markEventAsHandled(g, event, t)
                 IN  IF g1.ret
                     THEN Pub(g1, "notification:success", <<>>)
                     ELSE Pub(g1, "notification:error", <<>>)
            ELSE Pub(g, "notification:warning", <<>>)

\* callback(data) for a command handler of the controller
InvokeCommand(handler, g, data, t) ==
    CASE handler = "gameController.startSimulation" -> startSimulation(g)
      [] handler = "gameController.pauseSimulation" -> pauseSimulation(g)
      [] handler = "gameController.resetGame" -> resetGame(g)
      [] handler = "gameController.saveRule" -> saveRule(g, data.rule)
      [] handler = "gameController.testRule" -> testRule(g, data.rule)
      [] handler = "gameController.handleEvent" ->
            handleEvent(g, data.event, data.action, t)
      [] OTHER -> g

\* eventBus.publish of a ui:* command by the presentation layer
RECURSIVE ForEachCommandHandler(_, _, _, _, _)
ForEachCommandHandler(g, handlers, i, data, t) ==
    IF i > Len(handlers)
    THEN g
    ELSE ForEachCommandHandler(
             CHOOSE r \in {InvokeCommand(handlers[i], x, data, t) : x \in {g}} : TRUE,
             handlers, i + 1, data, t)

publishCommand(g, topic, data, t) ==
    ForEachCommandHandler(g, g.eventBus[topic], 1, data, t)

\* ------------------------------------------------------------ the machine
\* the program state as one record, before an operation
Cur ==
    [state |-> state, currentLevelIndex |-> currentLevelIndex, settings |-> settings,
     localStorage |-> localStorage, storageAccess |-> storageAccess,
     simulationInterval |-> simulationInterval,
     escalationCheckInterval |-> escalationCheckInterval,
     activeTimers |-> activeTimers, eventBus |-> eventBus,
     out |-> <<>>, ret |-> FALSE, escalated |-> <<>>, thrown |-> FALSE]

\* the event ids carried by the publications of one topic, in order
PublishedIds(out, topic) ==
    LET sel == SelectSeq(out, LAMBDA pb : pb.topic = topic)
    IN  {sel[i].data[1] : i \in 1..Len(sel)}

\* the state after an operation, with the record of what it did; the actions
\* bind g to the value of the whole call before committing it
Commit(g, op, arg) ==
    /\ state' = g.state
    /\ currentLevelIndex' = g.currentLevelIndex
    /\ settings' = g.settings
    /\ localStorage' = g.localStorage
    /\ storageAccess' = g.storageAccess
    /\ simulationInterval' = g.simulationInterval
    /\ escalationCheckInterval' = g.escalationCheckInterval
    /\ activeTimers' = g.activeTimers
    /\ eventBus' = g.eventBus
    /\ hist' = [hist EXCEPT
                  !.handled = @ \cup PublishedIds(g.out, "event:handled"),
                  !.escalated = @ \cup {g.escalated[i] : i \in 1..Len(g.escalated)},
                  !.over = IF \E i \in 1..Len(g.out) : g.out[i].topic = "gameState:reset"
                           THEN FALSE
                           ELSE @ \/ \E i \in 1..Len(g.out) : g.out[i].topic = "game:over"]
    /\ lastOp' = [op |-> op, arg |-> arg, ret |-> g.ret,
                  escalated |-> g.escalated, out |-> g.out,
                  repeat |-> arg \in hist.handled]

\* no operation has run since the clock last moved
Idle ==
    [op |-> "idle", arg |-> 0, ret |-> FALSE, escalated |-> <<>>, out |-> <<>>,
     repeat |-> FALSE]

\* the module-level object literals, before main.js initialises anything
Boot ==
    [state |-> DefaultState, currentLevelIndex |-> 0,
     settings |-> [eventFrequencyMultiplier |-> 10],
     localStorage |-> <<>>, storageAccess |-> "granted",
     simulationInterval |-> null,
     escalationCheckInterval |-> null, activeTimers |-> {},
     eventBus |-> [topic \in Topics |-> <<>>],
     out |-> <<>>, ret |-> FALSE, escalated |-> <<>>, thrown |-> FALSE]

\* initializeApplication with the given item in storage: escalationsController.init,
\* then gameController.init (gameModel.init, ruleEngine.init, setupEventSubscriptions);
\* an exception ends it there, the catch only reports it
startApplication(boot) ==
    LET g1 == subscribe(boot, "events:escalated",
                        "escalationsController.handleEscalatedEvents")
        g2 == gameModel_init(g1)
        g3 == subscribe(g2, "event:added", "ruleEngine.handleNewEvent")
    IN  IF g2.thrown THEN g2 ELSE setupEventSubscriptions(g3)

initializeApplication(stored) == startApplication([Boot EXCEPT !.localStorage = stored])

\* the variables once initializeApplication has returned g
Started(g) ==
        /\ state = g.state
        /\ currentLevelIndex = g.currentLevelIndex
        /\ settings = g.settings
        /\ localStorage = g.localStorage
        /\ storageAccess = g.storageAccess
        /\ simulationInterval = g.simulationInterval
        /\ escalationCheckInterval = g.escalationCheckInterval
        /\ activeTimers = g.activeTimers
        /\ eventBus = g.eventBus
        /\ now = 0
        /\ hist = [handled |-> {}, escalated |-> {}, over |-> FALSE]
        /\ lastOp = Idle

InitProgram(stored) == Started(initializeApplication(stored))

\* time passes
AdvanceClock ==
    /\ \E t \in Instants : t > now /\ now' = t
    /\ lastOp' = Idle
    /\ UNCHANGED <<state, currentLevelIndex, settings, localStorage, storageAccess,
                   simulationInterval,
                   escalationCheckInterval, activeTimers, eventBus, nextId, hist>>

\* the callback of the event-generation interval, its template drawn from rows
Generate(rows) ==
    /\ \E tm \in activeTimers : tm.kind = "generation"
    /\ nextId <= MaxEvents
    /\ now + escalationTimeout <= Horizon
    /\ \E n \in rows, ip \in IPs, count \in Counts, volume \in Volumes,
          process \in Processes, domain \in Domains, code \in Codes,
          resource \in Resources, service \in Services, falsePositive \in BOOLEAN :
          LET event == generateEvent(nextId, now, possibleEvents[n], ip, count, volume,
                                     process, domain, code, resource, service)
              g1 == addEvent(Cur, event, now)
              duplicate == event.isNoise /\ falsePositive
              falsePositiveEvent ==
                  [event EXCEPT !.id = nextId + 1, !.type = "potential_false_positive"]
          IN  /\ duplicate => nextId + 1 <= MaxEvents
              /\ \E g \in {IF duplicate THEN addEvent(g1, falsePositiveEvent, now) ELSE g1} :
                    Commit(g, "generate", nextId)
              /\ nextId' = IF duplicate THEN nextId + 2 ELSE nextId + 1
    /\ UNCHANGED now

GenerationTick == Generate(GeneratedRows)

\* the callback of the escalation-check interval
EscalationCheckTick ==
    /\ \E tm \in activeTimers : tm.kind = "escalationCheck"
    /\ \E g \in {checkEscalations(Cur, now)} : Commit(g, "checkEscalations", 0)
    /\ UNCHANGED <<now, nextId>>

UiStartGame ==
    /\ \E g \in {publishCommand(Cur, "ui:startGame", <<>>, now)} : Commit(g, "start", 0)
    /\ UNCHANGED <<now, nextId>>

UiPauseGame ==
    /\ \E g \in {publishCommand(Cur, "ui:pauseGame", <<>>, now)} : Commit(g, "pause", 0)
    /\ UNCHANGED <<now, nextId>>

UiResetGame ==
    /\ \E g \in {publishCommand(Cur, "ui:resetGame", <<>>, now)} : Commit(g, "reset", 0)
    /\ UNCHANGED <<now, nextId>>

\* the rules the player submits
Rule(conditionType, threshold) ==
    [conditionType |-> conditionType, threshold |-> threshold,
     processName |-> <<>>, domainKeyword |-> <<>>, errorCodeThreshold |-> <<>>,
     resourceKeyword |-> <<>>, serviceName |-> <<>>]

RuleInputs == {Rule("login_fail", <<"5">>), Rule("login_fail", <<"a">>)}

UiSaveRule ==
    /\ Len(state.rules) < MaxRules
    /\ \E rule \in RuleInputs :
          \E g \in {publishCommand(Cur, "ui:saveRule", [rule |-> rule], now)} :
              Commit(g, "saveRule", 0)
    /\ UNCHANGED <<now, nextId>>

\* the action tags the player applies to a logged alert
ActionInputs == {"apply_rule", "block_ip", "stop_timer"}

UiHandleEvent ==
    /\ state.score <= MaxScore
    /\ \E i \in 1..Len(state.events), action \in ActionInputs :
          \E g \in {publishCommand(Cur, "ui:handleEvent",
                                    [event |-> state.events[i], action |-> action], now)} :
              Commit(g, "handleEvent", state.events[i].id)
    /\ UNCHANGED <<now, nextId>>

\* the debrief screen's next-level button: gameModel.startNextLevel()
StartNextLevel ==
    /\ \E g \in {startNextLevel(Cur)} : Commit(g, "startNextLevel", 0)
    /\ UNCHANGED <<now, nextId>>

Next ==
    \/ AdvanceClock
    \/ GenerationTick
    \/ EscalationCheckTick
    \/ UiStartGame
    \/ UiPauseGame
    \/ UiResetGame
    \/ UiSaveRule
    \/ UiHandleEvent

Init == InitProgram(<<>>) /\ nextId = 1

Spec == Init /\ [][Next]_vars

\* the timers fire while they are active, and time passes
FairSpec == Spec /\ WF_vars(EscalationCheckTick) /\ WF_vars(AdvanceClock)

\* the same program with the level table in play: one event, and startNextLevel
LevelInit == InitProgram(<<>>) /\ nextId = MaxEvents

LevelNext == Next \/ StartNextLevel

LevelSpec == LevelInit /\ [][LevelNext]_vars

\* escalations over the whole catalog, from the uptime a stored snapshot carries
SavedUptimes == {100, 30, 12}

StoredSnapshot(uptime) ==
    << JSONstringify([level |-> 1 * Thousand, score |-> 0, uptime |-> uptime,
                      rules |-> <<>>, levelProgress |-> 0], stateToSaveKeys) >>

ImpactRows == 1..9

ImpactGenerationTick == Generate(ImpactRows)

ImpactInit == \E uptime \in SavedUptimes : InitProgram(StoredSnapshot(uptime)) /\ nextId = 1

ImpactNext ==
    \/ AdvanceClock
    \/ ImpactGenerationTick
    \/ EscalationCheckTick
    \/ UiStartGame

ImpactSpec == ImpactInit /\ [][ImpactNext]_vars

\* the program started on whatever the storage holds: nothing, a text that is
\* not JSON, a snapshot the program wrote, or an object with other contents.
\* Stored numbers other than the level are whole.
Snapshot ==
    [level |-> 2 * Thousand, score |-> 500, uptime |-> 80,
     rules |-> << Rule("login_fail", <<"5">>) >>, levelProgress |-> 0]

Member(key, value) == [key |-> key, value |-> value]

StoredTexts ==
    { JSONstringify(object, stateToSaveKeys) :
        object \in { Snapshot,
                     [Snapshot EXCEPT !.level = 3 * Thousand],
                     [Snapshot EXCEPT !.level = 0],
                     [Snapshot EXCEPT !.level = 4 * Thousand],
                     [Snapshot EXCEPT !.level = 1500],
                     [Snapshot EXCEPT !.score = -100],
                     [Snapshot EXCEPT !.uptime = 150],
                     [Snapshot EXCEPT !.uptime = -5],
                     [Snapshot EXCEPT !.rules = << Rule("bogus", <<>>) >>] } }
    \cup
    { [parses |-> FALSE, members |-> <<>>],
      [parses |-> TRUE, members |-> << Member("score", 700) >>],
      [parses |-> TRUE,
       members |-> << Member("isRunning", TRUE), Member("uptime", 60),
                      Member("trafficData", << [timestamp |-> 0, packetCount |-> 1] >>),
                      Member("debugMode", TRUE) >>] }

LoadInit ==
    /\ \E stored \in {<<>>} \cup {<<text>> : text \in StoredTexts} : InitProgram(stored)
    /\ nextId = MaxEvents

LoadSpec == LoadInit /\ [][Next]_vars

\* calculateScore on its own, called with arguments of every kind: nothing or
\* several events detected, whole and fractional speed bonuses (thousandths, 100
\* making a tie), penalties that outweigh the rest
DetectedCounts == {0, 1, 2}
SpeedBonuses == {0, 100, 12500, 25000}
Uptimes == {80, 100}
FalsePositiveCounts == {0, 1, 30}

CalculateScore ==
    /\ state.score <= MaxScore
    /\ \E d \in DetectedCounts, sp \in SpeedBonuses, u \in Uptimes,
          f \in FalsePositiveCounts :
          \E g \in {calculateScore(Cur, d, sp, u, f)} :
              Commit(g, "calculateScore", <<d, sp, u, f>>)
    /\ UNCHANGED <<now, nextId>>

ScoreSpec == Init /\ [][CalculateScore]_vars

\* evaluateRule on its own, on every pairing of a rule and an event. A rule
\* and an event carry every parameter and every field, whatever their type, so
\* that only the test of the type keeps a rule of one type from an event of
\* another. The text of a whole number is its decimal numeral.
RECURSIVE Numeral(_)
Numeral(n) ==
    IF n < 10 THEN << Digits[n + 1] >> ELSE Numeral(n \div 10) \o << Digits[(n % 10) + 1] >>

RuleTypes ==
    {"login_fail", "traffic_spike", "process_spawn", "dns_query", "http_error",
     "unauthorized_access", "service_failure", "sql_injection", "port_scan"}

EventTypes ==
    {"login_fail", "traffic_spike", "process_spawn", "dns_query", "http_error",
     "unauthorized_access", "service_failure", "sql_injection", "normal_activity"}

\* the parameters of a rule: the thresholds as numbers (<<>>: the text is no
\* number) and the names and keywords as texts
RuleParameters ==
    { [threshold |-> <<5>>, errorCodeThreshold |-> <<403>>,
       processName |-> <<"m", "i", "n", "e", "r", ".", "b", "i", "n">>,
       domainKeyword |-> <<"s", "i", "t", "e">>,
       resourceKeyword |-> <<"a", "d", "m", "i", "n">>,
       serviceName |-> <<"f", "i", "r", "e", "w", "a", "l", "l">>],
      [threshold |-> <<300>>, errorCodeThreshold |-> <<404>>,
       processName |-> <<"m", "i", "n", "e", "r">>,
       domainKeyword |-> <<"b", "a", "d", "s", "i", "t", "e", ".", "c", "o", "m">>,
       resourceKeyword |-> <<"a", "d", "m", "i", "n", "s">>,
       serviceName |-> <<"f", "i", "r", "e", "w", "a", "l", "l", " ">>],
      [threshold |-> <<>>, errorCodeThreshold |-> <<>>,
       processName |-> <<"M", "i", "n", "e", "r", ".", "b", "i", "n">>,
       domainKeyword |-> <<"s", "i", "t", "e", ".", "c", "o", "m", "s">>,
       resourceKeyword |-> <<"/">>,
       serviceName |-> <<"w", "a", "l", "l">>] }

\* the text the form holds for a threshold
ThresholdText(number) == IF number = <<>> THEN <<"a", "b", "c">> ELSE Numeral(number[1])

RuleOf(conditionType, p) ==
    [conditionType |-> conditionType,
     threshold |-> ThresholdText(p.threshold),
     errorCodeThreshold |-> ThresholdText(p.errorCodeThreshold),
     processName |-> p.processName, domainKeyword |-> p.domainKeyword,
     resourceKeyword |-> p.resourceKeyword, serviceName |-> p.serviceName]

EventFields ==
    { [count |-> 6, volume |-> 301, code |-> 403,
       process |-> <<"m", "i", "n", "e", "r", ".", "b", "i", "n">>,
       domain |-> <<"b", "a", "d", "s", "i", "t", "e", ".", "c", "o", "m">>,
       resource |-> <<"/", "a", "p", "i", "/", "a", "d", "m", "i", "n", "_",
                      "e", "n", "d", "p", "o", "i", "n", "t", "s">>,
       service |-> <<"f", "i", "r", "e", "w", "a", "l", "l">>],
      [count |-> 5, volume |-> 300, code |-> 404,
       process |-> <<"m", "i", "n", "e", "r">>,
       domain |-> <<"p", "h", "i", "s", "h", "i", "n", "g", ".", "i", "n", "f", "o">>,
       resource |-> <<"/", "c", "o", "n", "f", "i", "g">>,
       service |-> <<"w", "a", "l", "l">>],
      [count |-> 4, volume |-> 299, code |-> 500,
       process |-> <<"t", "r", "o", "j", "a", "n", ".", "d", "l", "l">>,
       domain |-> <<"s", "i", "t", "e">>,
       resource |-> <<"a", "d", "m", "i", "n">>,
       service |-> <<"f", "i", "r", "e", "w", "a", "l", "l", " ">>] }

EventOf(type, f) ==
    [id |-> 1, timestamp |-> 0, type |-> type, severity |-> 5, isNoise |-> FALSE,
     category |-> "malicious", remediation |-> {}, ip |-> "192.168.0.1",
     count |-> f.count, volume |-> f.volume, process |-> f.process,
     domain |-> f.domain, code |-> f.code, resource |-> f.resource,
     service |-> f.service]

EvaluateRule ==
    /\ \E conditionType \in RuleTypes, p \in RuleParameters,
          type \in EventTypes, f \in EventFields :
          LET rule == RuleOf(conditionType, p)
              event == EventOf(type, f)
          IN  \E g \in {[Cur EXCEPT !.ret = evaluateRule(rule, event)]} :
                  Commit(g, "evaluateRule", [rule |-> rule, event |-> event, meant |-> p])
    /\ UNCHANGED <<now, nextId>>

RuleSpec == Init /\ [][EvaluateRule]_vars

\* the save-rule command on its own, with rules of every kind the handler can
\* be handed: the form's fields are texts, and the handler takes whatever the
\* ui:saveRule message carries
MaxSavedRules == 3

RuleWith(conditionType, field, text) == [Rule(conditionType, <<>>) EXCEPT ![field] = text]

\* the numbers the submitted thresholds are written from
Thresholds == {5, 99, 100, 599, 600}

SubmittedRules ==
    {Rule("login_fail", Numeral(5)), Rule("login_fail", <<"a">>),
     Rule("traffic_spike", <<>>), Rule("port_scan", Numeral(5)),
     RuleWith("", "threshold", Numeral(5)),
     RuleWith("process_spawn", "processName", <<"m", "i", "n", "e", "r">>),
     RuleWith("process_spawn", "processName", <<" ", " ">>),
     RuleWith("dns_query", "domainKeyword", <<>>),
     RuleWith("service_failure", "processName", <<"m", "i", "n", "e", "r">>)}
    \cup {RuleWith("http_error", "errorCodeThreshold", Numeral(n)) : n \in Thresholds \ {5}}

SubmitRule ==
    /\ Len(state.rules) < MaxSavedRules
    /\ \E rule \in SubmittedRules :
          \E g \in {publishCommand(Cur, "ui:saveRule", [rule |-> rule], now)} :
              Commit(g, "saveRule", rule)
    /\ UNCHANGED <<now, nextId>>

RuleSaveSpec == Init /\ [][SubmitRule]_vars

\* checkEventAgainstRules on the rules stored so far, for events of the types
\* the stored rules are about and of one they are not
CheckedEvents ==
    {EventOf(type, f) : type \in {"login_fail", "process_spawn", "http_error", "dns_query"},
                        f \in EventFields \cup {[x EXCEPT !.code = 599] : x \in EventFields}}

CheckEvent ==
    /\ \E event \in CheckedEvents :
          \E g \in {[Cur EXCEPT !.ret = checkEventAgainstRules(Cur, event)]} :
              Commit(g, "checkEventAgainstRules", event)
    /\ UNCHANGED <<now, nextId>>

MatchNext == SubmitRule \/ CheckEvent

MatchSpec == Init /\ [][MatchNext]_vars

\* the program started on a snapshot with three rules, two of which match the
\* login_fail events the generator makes, and run with every command and both
\* timers
StoredRules ==
    << Rule("login_fail", Numeral(5)),
       RuleWith("service_failure", "serviceName", <<"d", "n", "s">>),
       Rule("login_fail", Numeral(3)) >>

LiveInit ==
    /\ InitProgram(<< JSONstringify([level |-> 1 * Thousand, score |-> 0, uptime |-> 100,
                                     rules |-> StoredRules, levelProgress |-> 0],
                                    stateToSaveKeys) >>)
    /\ nextId = 1

LiveSpec == LiveInit /\ [][Next]_vars

\* addEvent over malicious, noise and false-positive templates, from the
\* snapshot with three rules
AddedRows == {1, 9, 13}

AddGenerationTick == Generate(AddedRows)

AddNext ==
    \/ AdvanceClock
    \/ AddGenerationTick
    \/ EscalationCheckTick
    \/ UiStartGame
    \/ UiPauseGame
    \/ UiResetGame
    \/ UiSaveRule
    \/ UiHandleEvent

AddSpec == LiveInit /\ [][AddNext]_vars

\* the player's actions over the whole catalog: every action tag of the panel
\* and one that is none, on events of every malicious type, a noise type and a
\* false-positive type, one event at a time
ActionRows == (1..9) \cup {13}

ActionTags ==
    {"block_ip", "reset_password", "rate_limit", "terminate_process", "blacklist_domain",
     "patch_vulnerability", "revoke_access", "restore_backup", "reboot_server",
     "apply_rule", "stop_timer", "clear_log", "isolate_host"}

ActionGenerationTick == Generate(ActionRows)

\* ui:handleEvent; the operation is recorded under the action tag applied
ApplyAction ==
    /\ state.score <= MaxScore
    /\ \E i \in 1..Len(state.events), action \in ActionTags :
          \E g \in {publishCommand(Cur, "ui:handleEvent",
                                    [event |-> state.events[i], action |-> action], now)} :
              Commit(g, action, state.events[i].id)
    /\ UNCHANGED <<now, nextId>>

ActionNext ==
    \/ AdvanceClock
    \/ ActionGenerationTick
    \/ EscalationCheckTick
    \/ UiStartGame
    \/ ApplyAction

ActionSpec == LevelInit /\ [][ActionNext]_vars

\* the bus on its own, for any topic name and handlers that only record their
\* call. events is the object literal {}: a name it has no own property for is
\* looked up in Object.prototype, so events[name] is undefined only when
\* Object.prototype has no member of that name either.
ObjectPrototype ==
    {"constructor", "toString", "toLocaleString", "valueOf", "hasOwnProperty",
     "isPrototypeOf", "propertyIsEnumerable", "__proto__"}

\* this.events[eventName]: the array of callbacks, an inherited member that is
\* no array, or undefined
Lookup(events, eventName) ==
    IF eventName \in DOMAIN events
    THEN [kind |-> "array", callbacks |-> events[eventName]]
    ELSE IF eventName \in ObjectPrototype
         THEN [kind |-> "inherited", callbacks |-> <<>>]
         ELSE [kind |-> "undefined", callbacks |-> <<>>]

\* events with the own property name set to callbacks
WithProperty(events, eventName, callbacks) ==
    [k \in DOMAIN events \cup {eventName} |->
        IF k = eventName THEN callbacks ELSE events[k]]

\* eventBus.subscribe: push on a value that is no array is a TypeError
eventBus_subscribe(g, eventName, callback) ==
    LET found == Lookup(g.eventBus, eventName)
    IN  CASE found.kind = "undefined" ->
                [g EXCEPT !.eventBus = WithProperty(@, eventName, <<callback>>)]
          [] found.kind = "array" ->
                [g EXCEPT !.eventBus = WithProperty(@, eventName,
                                                    Append(found.callbacks, callback))]
          [] OTHER -> [g EXCEPT !.thrown = TRUE]

\* callback(data) of a handler that records its call
Call(g, callback, eventName, data) ==
    [g EXCEPT !.out = Append(@, [topic |-> eventName, data |-> data, callback |-> callback])]

RECURSIVE ForEachCallback(_, _, _, _, _)
ForEachCallback(g, callbacks, i, eventName, data) ==
    IF i > Len(callbacks)
    THEN g
    ELSE ForEachCallback(Call(g, callbacks[i], eventName, data), callbacks, i + 1,
                         eventName, data)

\* eventBus.publish: forEach on a value that is no array is a TypeError
eventBus_publish(g, eventName, data) ==
    LET found == Lookup(g.eventBus, eventName)
    IN  CASE found.kind = "undefined" -> g
          [] found.kind = "array" -> ForEachCallback(g, found.callbacks, 1, eventName, data)
          [] OTHER -> [g EXCEPT !.thrown = TRUE]

\* eventBus.reset
eventBus_reset(g) == [g EXCEPT !.eventBus = <<>>]

\* what the caller of a bus operation gets: undefined, or the TypeError raised
Outcome(g) == [g EXCEPT !.ret = IF g.thrown THEN "TypeError" ELSE "undefined"]

MaxCallbacks == 3
BusTopics == {"event:added", "game:over", "constructor"}
Callbacks == {"first", "second"}
Payloads == {1, 2}

BusSubscribe ==
    /\ \E eventName \in BusTopics, callback \in Callbacks :
          /\ Len(Lookup(eventBus, eventName).callbacks) < MaxCallbacks
          /\ \E g \in {Outcome(eventBus_subscribe(Cur, eventName, callback))} :
                Commit(g, "subscribe", <<eventName, callback>>)
    /\ UNCHANGED <<now, nextId>>

BusPublish ==
    /\ \E eventName \in BusTopics, data \in Payloads :
          \E g \in {Outcome(eventBus_publish(Cur, eventName, data))} :
              Commit(g, "publish", <<eventName, data>>)
    /\ UNCHANGED <<now, nextId>>

BusReset ==
    /\ \E g \in {Outcome(eventBus_reset(Cur))} : Commit(g, "busReset", <<>>)
    /\ UNCHANGED <<now, nextId>>

\* the module-level literals: nothing subscribed yet
BusInit ==
    /\ state = Boot.state
    /\ currentLevelIndex = Boot.currentLevelIndex
    /\ settings = Boot.settings
    /\ localStorage = Boot.localStorage
    /\ storageAccess = Boot.storageAccess
    /\ simulationInterval = Boot.simulationInterval
    /\ escalationCheckInterval = Boot.escalationCheckInterval
    /\ activeTimers = Boot.activeTimers
    /\ eventBus = <<>>
    /\ now = 0
    /\ nextId = 1
    /\ hist = [handled |-> {}, escalated |-> {}, over |-> FALSE]
    /\ lastOp = [Idle EXCEPT !.ret = "undefined"]

BusNext == BusSubscribe \/ BusPublish \/ BusReset

BusSpec == BusInit /\ [][BusNext]_vars

\* ================================================================ properties
Published(out, topic) == \E i \in 1..Len(out) : out[i].topic = topic

\* the ids of the events that have an entry in a pending collection
PendingIds(pending) == {pending[i].event.id : i \in 1..Len(pending)}

SeqToSet(q) == {q[i] : i \in 1..Len(q)}

\* C1: markEventAsHandled is idempotent: a call for an event that was already
\* reported handled returns false, earns nothing and publishes neither
\* score:updated nor event:handled.
C1_SecondCallIsNoOp ==
    (lastOp.op = "handleEvent" /\ lastOp.repeat) =>
        /\ lastOp.ret = FALSE
        /\ ~Published(lastOp.out, "score:updated")
        /\ ~Published(lastOp.out, "event:handled")

\* C2: a sweep keeps every unhandled entry younger than escalationTimeout and
\* does not return it; it removes and returns every unhandled entry whose age
\* has reached escalationTimeout; it never returns an event that an earlier
\* sweep returned.
C2_EscalationBoundary ==
    [][lastOp'.op = "checkEscalations" =>
          /\ \A i \in 1..Len(state.pendingMaliciousEvents) :
                LET p == state.pendingMaliciousEvents[i]
                    returned == p.event.id \in SeqToSet(lastOp'.escalated)
                    stays == \E k \in 1..Len(state'.pendingMaliciousEvents) :
                                 state'.pendingMaliciousEvents[k] = p
                    gone == p.event.id \notin PendingIds(state'.pendingMaliciousEvents)
                IN  ~p.handled =>
                        IF now - p.timestamp < escalationTimeout
                        THEN stays /\ ~returned
                        ELSE gone /\ returned
          /\ SeqToSet(lastOp'.escalated) \cap hist.escalated = {}
          /\ SeqToSet(lastOp'.escalated) \subseteq PendingIds(state.pendingMaliciousEvents)
      ]_vars

\* C2 witness: a sweep at exactly t0 + escalationTimeout of one entry returned
\* it and kept another entry that was one millisecond younger
C2_Witness ==
    /\ lastOp.op = "checkEscalations"
    /\ Len(lastOp.escalated) = 1
    /\ now = escalationTimeout
    /\ Len(state.pendingMaliciousEvents) = 1
    /\ ~state.pendingMaliciousEvents[1].handled
    /\ now - state.pendingMaliciousEvents[1].timestamp = escalationTimeout - 1

\* C3: handled and escalated are mutually exclusive: no event is both reported
\* handled (event:handled, with points) and carried by an events:escalated
\* payload, in either order.
C3_HandledXorEscalated == hist.handled \cap hist.escalated = {}

\* an entry was in the collection before the step and is not in it after
Leaves(p) == p.event.id \notin PendingIds(state'.pendingMaliciousEvents)

\* C4 (as stated): an event of the log has a pending entry if and only if it is
\* malicious, was not reported handled and has not escalated.
C4_PendingIffUnhandled ==
    \A i \in 1..Len(state.events) :
        LET e == state.events[i]
        IN  e.id \in PendingIds(state.pendingMaliciousEvents) <=>
                /\ e.category = "malicious"
                /\ e.id \notin hist.handled
                /\ e.id \notin hist.escalated

\* what holds of the pending collection in every state
PendingWellFormed ==
    LET pending == state.pendingMaliciousEvents
    IN  /\ \A i \in 1..Len(pending) :
              /\ pending[i].event.category = "malicious"
              /\ pending[i].event \in SeqToSet(state.events)
              /\ pending[i].event.id \notin hist.escalated
        /\ Cardinality(PendingIds(pending)) = Len(pending)
        /\ lastOp.op = "checkEscalations" =>
              \A i \in 1..Len(pending) : ~pending[i].handled

\* how the pending collection changes in one step
PendingStep ==
    LET pending == state.pendingMaliciousEvents
        added == PendingIds(state'.pendingMaliciousEvents) \ PendingIds(pending)
    IN  /\ \A i \in 1..Len(pending) :
              Leaves(pending[i]) =>
                  \/ /\ lastOp'.op = "checkEscalations"
                     /\ \/ pending[i].handled
                        \/ pending[i].event.id \in SeqToSet(lastOp'.escalated)
                  \/ /\ lastOp'.op \in {"reset", "startNextLevel"}
                     /\ state'.pendingMaliciousEvents = <<>>
        /\ added # {} => lastOp'.op = "generate"
        /\ lastOp'.op = "generate" =>
              \A i \in (Len(state.events) + 1)..Len(state'.events) :
                  state'.events[i].id \in added <=>
                      state'.events[i].category = "malicious"

\* C4 (amended): every pending entry belongs to a malicious event of the log
\* that has not escalated; an entry is created exactly when a malicious event
\* is added; it stays, also once its handled flag is set, until a sweep removes
\* it (flag set, or escalated) or a full reset empties the collection; right
\* after a sweep no flagged entry is left.
C4_PendingEntries == []PendingWellFormed /\ [][PendingStep]_vars

\* C4 witness: an event was reported handled and its flagged entry is still in
\* the collection, next to an unflagged one
C4_Witness ==
    \E i, j \in 1..Len(state.pendingMaliciousEvents) :
        /\ state.pendingMaliciousEvents[i].handled
        /\ state.pendingMaliciousEvents[i].event.id \in hist.handled
        /\ ~state.pendingMaliciousEvents[j].handled

InPending(id) == id \in PendingIds(state.pendingMaliciousEvents)

SweepActive == \E tm \in activeTimers : tm.kind = "escalationCheck"

\* right after a sweep no entry is left whose flag is set or whose age has
\* reached the timeout
SweptClean ==
    lastOp.op = "checkEscalations" =>
        \A i \in 1..Len(state.pendingMaliciousEvents) :
            /\ ~state.pendingMaliciousEvents[i].handled
            /\ now - state.pendingMaliciousEvents[i].timestamp < escalationTimeout

\* an entry that a sweep removes was flagged handled or is escalated by it
SweptAsHandledOrEscalated ==
    lastOp'.op = "checkEscalations" =>
        \A i \in 1..Len(state.pendingMaliciousEvents) :
            Leaves(state.pendingMaliciousEvents[i]) =>
                \/ state.pendingMaliciousEvents[i].handled
                \/ state.pendingMaliciousEvents[i].event.id \in SeqToSet(lastOp'.escalated)

\* C5: while the sweep timer is active every pending entry is eventually
\* removed, as handled or as escalated; the first sweep at or after
\* enqueuedAt + escalationTimeout leaves no such entry behind.
C5_PendingTerminates ==
    /\ []SweptClean
    /\ [][SweptAsHandledOrEscalated]_vars
    /\ \A id \in 1..MaxEvents : InPending(id) ~> (~InPending(id) \/ ~SweepActive)

\* C5 witness: a sweep at or after the timeout escalated an entry and emptied
\* the collection, a flagged entry included
C5_Witness ==
    /\ lastOp.op = "checkEscalations"
    /\ now >= escalationTimeout
    /\ lastOp.escalated # <<>>
    /\ state.pendingMaliciousEvents = <<>>
    /\ Len(state.events) = MaxEvents
    /\ hist.handled # {}

\* C6: the rule engine's handler on event:added, the escalation-impact handler
\* on events:escalated and the controller's command handlers are each
\* subscribed exactly once, in every state and so after any reset; an added
\* malicious event that matches a stored rule is reported handled, and a sweep
\* that escalates events reduces the uptime.
C6_StandardHandlersSubscribed ==
    /\ eventBus["event:added"] = <<"ruleEngine.handleNewEvent">>
    /\ eventBus["events:escalated"] = <<"escalationsController.handleEscalatedEvents">>
    /\ eventBus["ui:startGame"] = <<"gameController.startSimulation">>
    /\ eventBus["ui:pauseGame"] = <<"gameController.pauseSimulation">>
    /\ eventBus["ui:resetGame"] = <<"gameController.resetGame">>
    /\ eventBus["ui:saveRule"] = <<"gameController.saveRule">>
    /\ eventBus["ui:testRule"] = <<"gameController.testRule">>
    /\ eventBus["ui:handleEvent"] = <<"gameController.handleEvent">>
    /\ (lastOp.op = "generate" /\ state.events[lastOp.arg].category = "malicious"
            /\ Len(checkEventAgainstRules(Cur, state.events[lastOp.arg])) > 0)
          => lastOp.arg \in PublishedIds(lastOp.out, "event:handled")
    /\ (lastOp.op = "checkEscalations" /\ lastOp.escalated # <<>>)
          => Published(lastOp.out, "uptime:updated")

\* topic a is published at some point before topic b in one operation
PublishedBefore(out, a, b) ==
    \E i, j \in 1..Len(out) : i < j /\ out[i].topic = a /\ out[j].topic = b

\* C7: startNextLevel at the last level leaves score 0 and level 1 and
\* publishes game:completed first and the reset event after it, never the
\* reset event first.
C7_CompletedThenReset ==
    (lastOp.op = "startNextLevel" /\ ~lastOp.ret) =>
        /\ state.score = 0
        /\ state.level = 1 * Thousand
        /\ PublishedBefore(lastOp.out, "game:completed", "gameState:reset")
        /\ ~PublishedBefore(lastOp.out, "gameState:reset", "game:completed")

\* C8: every active timer is one whose handle the controller holds; after
\* pause or reset no timer is active, both handles are null and isRunning is
\* false, also when the simulation was already paused; a generation tick or a
\* sweep runs only while the simulation is started.
C8_NoStrayTicks ==
    /\ \A tm \in activeTimers :
          tm.id \in {simulationInterval, escalationCheckInterval} \ {null}
    /\ lastOp.op \in {"pause", "reset"} =>
          /\ activeTimers = {}
          /\ simulationInterval = null
          /\ escalationCheckInterval = null
          /\ ~state.isRunning
    /\ lastOp.op \in {"generate", "checkEscalations"} =>
          /\ state.isRunning
          /\ simulationInterval # null
          /\ escalationCheckInterval # null

\* C8 witness: paused at the instant an unhandled entry reaches the timeout,
\* which a stray sweep would escalate
C8_Witness ==
    /\ lastOp.op = "pause"
    /\ activeTimers = {}
    /\ \E i \in 1..Len(state.pendingMaliciousEvents) :
          /\ ~state.pendingMaliciousEvents[i].handled
          /\ now - state.pendingMaliciousEvents[i].timestamp >= escalationTimeout

AtMostOneTimerPerKind ==
    \A kind \in {"generation", "escalationCheck"} :
        Cardinality({tm \in activeTimers : tm.kind = kind}) <= 1

StartWhileRunningIsNoOp ==
    (lastOp'.op = "start" /\ state.isRunning) =>
        /\ UNCHANGED <<state, currentLevelIndex, settings, localStorage,
                       simulationInterval, escalationCheckInterval, activeTimers,
                       eventBus>>
        /\ lastOp'.out = <<>>

\* C9: there is never more than one active generation timer nor more than one
\* active sweep timer, and a start command issued while running changes no
\* state, creates no timer and publishes nothing.
C9_StartIdempotent == []AtMostOneTimerPerKind /\ [][StartWhileRunningIsNoOp]_vars

\* C9 witness: a start command was issued while running, after events exist
C9_Witness ==
    /\ lastOp.op = "start"
    /\ lastOp.out = <<>>
    /\ state.isRunning
    /\ Cardinality(activeTimers) = 2
    /\ state.events # <<>>

\* the uptime penalty of an escalated event, as the specification states it
Penalty(event) ==
    CASE event.type = "traffic_spike" -> (2 * event.severity * 3) \div 2
      [] event.type = "service_failure" -> 2 * event.severity * 2
      [] OTHER -> 2 * event.severity

RECURSIVE UptimeAfter(_, _, _)
UptimeAfter(uptime, payload, k) ==
    IF k = 0
    THEN uptime
    ELSE Max(0, UptimeAfter(uptime, payload, k - 1) - Penalty(payload[k]))

\* uptime:updated for each event of the payload in order, each followed by
\* game:over when the uptime it reports is 0
RECURSIVE ImpactPublications(_, _, _)
ImpactPublications(uptime, payload, k) ==
    IF k = 0
    THEN <<>>
    ELSE LET after == UptimeAfter(uptime, payload, k)
         IN  ImpactPublications(uptime, payload, k - 1)
             \o << [topic |-> "uptime:updated",
                     data |-> <<after, payload[k].type, payload[k].id>>] >>
             \o (IF after = 0
                 THEN << [topic |-> "game:over", data |-> <<payload[k].id>>] >>
                 ELSE <<>>)

EscalationImpactStep ==
    lastOp'.op = "checkEscalations" =>
        LET payload == [k \in 1..Len(lastOp'.escalated) |->
                          CHOOSE e \in SeqToSet(state.events) : e.id = lastOp'.escalated[k]]
            n == Len(payload)
        IN  /\ state'.uptime = UptimeAfter(state.uptime, payload, n)
            /\ SelectSeq(lastOp'.out,
                         LAMBDA pb : pb.topic \in {"uptime:updated", "game:over"})
                   = ImpactPublications(state.uptime, payload, n)

\* C10: the events of an events:escalated payload are applied one by one in
\* payload order: uptime becomes max(0, uptime - penalty), penalty 2 * severity,
\* times 1.5 for traffic_spike and times 2 for service_failure; uptime:updated
\* is published once per event with the uptime after that event, and game:over
\* follows it exactly when that uptime is 0.
C10_EscalationImpact == [][EscalationImpactStep]_vars

\* C10 witness: a payload of two events, a traffic_spike among them, took the
\* uptime to 0 with the second event
C10_Witness ==
    /\ lastOp.op = "checkEscalations"
    /\ Len(lastOp.escalated) = 2
    /\ state.uptime = 0
    /\ \E i \in 1..Len(lastOp.out) :
          /\ lastOp.out[i].topic = "uptime:updated"
          /\ lastOp.out[i].data[1] > 0
    /\ \E i \in 1..Len(lastOp.out) :
          /\ lastOp.out[i].topic = "uptime:updated"
          /\ lastOp.out[i].data[2] = "traffic_spike"
    /\ Published(lastOp.out, "game:over")

\* C11: once game:over has been published and until the state is reset, no
\* step generates an event, none earns points and none publishes game:over
\* again.
C11_GameOverEndsSession ==
    [][hist.over =>
          /\ lastOp'.op # "generate"
          /\ ~Published(lastOp'.out, "score:updated")
          /\ ~Published(lastOp'.out, "game:over")]_vars

\* C12: in every reachable state the score is a non-negative integer, and
\* every step that does not reset the state (the reset command, or the
\* wrap-around past the last level) leaves the score at or above its
\* previous value.
C12_ScoreMonotone ==
    /\ [](state.score \in Nat)
    /\ [][Published(lastOp'.out, "gameState:reset") \/ state.score' >= state.score]_vars

\* C13: in every reachable state, the one right after loading the stored
\* snapshot and those after escalations included, uptime lies in [0, 100].
C13_UptimeInRange == state.uptime >= 0 /\ state.uptime <= 100

\* the whole number nearest to a value given in thousandths, a tie going up
Nearest(milli) ==
    CHOOSE n \in {milli \div 1000, milli \div 1000 + 1} :
        1000 * n - 500 <= milli /\ milli < 1000 * n + 500

\* max(0, round(100*d + 5*s + 10*u - 50*f)) for the arguments <<d, s, u, f>>
ExpectedPoints(arg) ==
    Max(0, Nearest(100000 * arg[1] + 5 * arg[2] + 10000 * arg[3] - 50000 * arg[4]))

ScorePublications(out) == SelectSeq(out, LAMBDA pb : pb.topic = "score:updated")

\* C14: calculateScore(d, s, u, f) returns max(0, round(100*d + 5*s + 10*u -
\* 50*f)), adds exactly that to the cumulative score and publishes one
\* score:updated carrying the new cumulative score and the returned value;
\* calculateScore(1, 25, 80, 0) returns 1025.
C14_ScoreFormula ==
    /\ [](lastOp.op = "calculateScore" =>
            /\ lastOp.ret = ExpectedPoints(lastOp.arg)
            /\ lastOp.arg = <<1, 25000, 80, 0>> => lastOp.ret = 1025
            /\ ScorePublications(lastOp.out) = << [topic |-> "score:updated",
                                                    data |-> <<state.score, lastOp.ret>>] >>)
    /\ [][lastOp'.op = "calculateScore" =>
              state.score' = state.score + ExpectedPoints(lastOp'.arg)]_vars

\* the worked example on top of points earned before, and a call whose
\* penalties outweigh the rest
C14_Witness ==
    /\ lastOp.op = "calculateScore"
    /\ lastOp.arg = <<1, 25000, 80, 0>>
    /\ lastOp.ret = 1025
    /\ state.score > 1025

Persisted == {"level", "score", "uptime", "rules", "levelProgress"}

\* a fresh model that loads the given stored item
FreshLoad(stored) == loadGameState([Boot EXCEPT !.localStorage = stored]).state

\* C15: saving the state and loading the saved item into a fresh model gives
\* back level, score, uptime, rules and levelProgress exactly; the saved text
\* has no other member, so the event log, the pending collection, trafficData
\* and isRunning of the fresh model are the initial ones; and whatever the
\* stored object holds, a key outside the allow-list is not copied.
C15_SnapshotRoundTrip ==
    LET saved == saveGameState(Cur).localStorage
        fresh == FreshLoad(saved)
    IN  /\ \A prop \in Persisted : fresh[prop] = state[prop]
        /\ {saved[1].members[i].key : i \in 1..Len(saved[1].members)} = Persisted
        /\ \A prop \in DOMAIN DefaultState \ Persisted : fresh[prop] = DefaultState[prop]
        /\ \A text \in StoredTexts :
              /\ DOMAIN FreshLoad(<<text>>) = DOMAIN DefaultState
              /\ \A prop \in DOMAIN DefaultState \ Persisted :
                    FreshLoad(<<text>>)[prop] = DefaultState[prop]

\* a running game with a rule, points, a logged event and a pending entry
C15_Witness ==
    /\ state.isRunning
    /\ Len(state.rules) > 0
    /\ state.score > 500
    /\ Len(state.events) > 0
    /\ Len(state.pendingMaliciousEvents) > 0
    /\ Len(state.trafficData) > 0

\* C16: whatever the storage held when the model was loaded, the level is one
\* of 1, 2, 3, currentLevelIndex is the level minus one, and getCurrentLevel
\* returns a level descriptor.
C16_LoadFallsBack ==
    /\ state.level \in {1 * Thousand, 2 * Thousand, 3 * Thousand}
    /\ currentLevelIndex = state.level - 1 * Thousand
    /\ getCurrentLevel(Cur) # <<>>

\* the condition types evaluateRule knows
ConditionTypes ==
    {"login_fail", "traffic_spike", "process_spawn", "dns_query", "http_error",
     "unauthorized_access", "service_failure"}

\* C17: evaluateRule(rule, event) is false whenever the event's type differs
\* from the rule's conditionType, for each of the seven condition types, and
\* false for a conditionType outside those seven.
C17_TypeSafety ==
    lastOp.op = "evaluateRule" =>
        LET rule == lastOp.arg.rule
            event == lastOp.arg.event
        IN  (event.type # rule.conditionType \/ rule.conditionType \notin ConditionTypes)
                => lastOp.ret = FALSE

\* a process rule on an event of another type that carries the very process
\* name the rule asks for
C17_Witness ==
    /\ lastOp.op = "evaluateRule"
    /\ lastOp.arg.rule.conditionType = "process_spawn"
    /\ lastOp.arg.event.type = "login_fail"
    /\ lastOp.arg.event.process = lastOp.arg.rule.processName
    /\ lastOp.ret = FALSE

\* keyword is a part of text: text is something, then keyword, then something
IsSubstring(keyword, text) ==
    \E i \in 0..Len(text), j \in 1..(Len(text) + 1) :
        i < j /\ text = SubSeq(text, 1, i) \o keyword \o SubSeq(text, j, Len(text))

\* C18: on an event of the rule's own type, login_fail matches iff count >
\* threshold and traffic_spike iff volume > threshold, strictly; http_error iff
\* code >= errorCodeThreshold; process_spawn and service_failure iff the names
\* are exactly equal; dns_query and unauthorized_access iff the keyword is a
\* substring of the domain / resource. A threshold that is no number matches
\* nothing.
C18_Comparisons ==
    (lastOp.op = "evaluateRule" /\ lastOp.arg.event.type = lastOp.arg.rule.conditionType) =>
        LET rule == lastOp.arg.rule
            event == lastOp.arg.event
            meant == lastOp.arg.meant
            type == rule.conditionType
        IN  lastOp.ret =
              CASE type = "login_fail" ->
                      meant.threshold # <<>> /\ event.count > meant.threshold[1]
                [] type = "traffic_spike" ->
                      meant.threshold # <<>> /\ event.volume > meant.threshold[1]
                [] type = "http_error" ->
                      /\ meant.errorCodeThreshold # <<>>
                      /\ event.code >= meant.errorCodeThreshold[1]
                [] type = "process_spawn" -> event.process = rule.processName
                [] type = "service_failure" -> event.service = rule.serviceName
                [] type = "dns_query" -> IsSubstring(rule.domainKeyword, event.domain)
                [] type = "unauthorized_access" ->
                      IsSubstring(rule.resourceKeyword, event.resource)
                [] OTHER -> FALSE

\* threshold 5 on a login_fail event with count 6
C18_Witness ==
    /\ lastOp.op = "evaluateRule"
    /\ lastOp.arg.rule.conditionType = "login_fail"
    /\ lastOp.arg.event.type = "login_fail"
    /\ lastOp.arg.rule.threshold = <<"5">>
    /\ lastOp.arg.event.count = 6
    /\ lastOp.ret = TRUE

\* the number a threshold text is the numeral of, <<>> when it is none
NumberOf(text) ==
    IF \E n \in Thresholds : Numeral(n) = text
    THEN << CHOOSE n \in Thresholds : Numeral(n) = text >>
    ELSE <<>>

\* a text with something other than spaces in it
NonBlank(text) == {text[i] : i \in 1..Len(text)} \ {" "} # {}

\* the Rule invariants: an accepted type, a threshold that is a whole number,
\* an HTTP code threshold within 100..599, a text parameter that is not blank
RuleInvariants(rule) ==
    /\ rule.conditionType \in ConditionTypes
    /\ rule.conditionType \in {"login_fail", "traffic_spike"} =>
            NumberOf(rule.threshold) # <<>>
    /\ rule.conditionType = "http_error" =>
            /\ NumberOf(rule.errorCodeThreshold) # <<>>
            /\ NumberOf(rule.errorCodeThreshold)[1] \in 100..599
    /\ rule.conditionType = "process_spawn" => NonBlank(rule.processName)
    /\ rule.conditionType = "dns_query" => NonBlank(rule.domainKeyword)
    /\ rule.conditionType = "unauthorized_access" => NonBlank(rule.resourceKeyword)
    /\ rule.conditionType = "service_failure" => NonBlank(rule.serviceName)

\* how many publications of a topic an operation made
Publications(out, topic) == Cardinality({i \in 1..Len(out) : out[i].topic = topic})

\* C19: a rule submitted through save-rule that breaks the Rule invariants is
\* rejected with no side effect: addRule returns false, the rule set and the
\* persisted snapshot are unchanged, rule:added is not published and an error
\* notification is; a valid rule is appended once at the end of the rule set,
\* persisted, and announced by exactly one rule:added.
C19_SaveRule ==
    [][lastOp'.op = "saveRule" =>
        LET rule == lastOp'.arg
            out == lastOp'.out
        IN  IF RuleInvariants(rule)
            THEN /\ lastOp'.ret = TRUE
                 /\ state'.rules = Append(state.rules, rule)
                 /\ state' = [state EXCEPT !.rules = state'.rules]
                 /\ localStorage' # <<>>
                 /\ JSONparse(localStorage'[1]).rules = state'.rules
                 /\ Publications(out, "rule:added") = 1
                 /\ Publications(out, "notification:error") = 0
            ELSE /\ lastOp'.ret = FALSE
                 /\ state' = state
                 /\ localStorage' = localStorage
                 /\ Publications(out, "rule:added") = 0
                 /\ Publications(out, "notification:error") >= 1]_vars

\* an invalid rule was rejected after a valid one had been stored
C19_Witness ==
    /\ lastOp.op = "saveRule"
    /\ ~RuleInvariants(lastOp.arg)
    /\ lastOp.ret = FALSE
    /\ Len(state.rules) = 1
    /\ localStorage # <<>>
    /\ JSONparse(localStorage[1]).rules = state.rules

\* C20: in every reachable state every rule of state.rules satisfies the Rule
\* invariants.
C20_RulesValid ==
    \A i \in 1..Len(state.rules) : RuleInvariants(state.rules[i])

\* list is the part of rules at the positions in at, in the order of rules
IsSelection(list, rules, at) ==
    /\ Len(list) = Cardinality(at)
    /\ \E f \in [1..Len(list) -> at] :
          /\ \A j, k \in 1..Len(list) : j < k => f[j] < f[k]
          /\ \A k \in 1..Len(list) : list[k] = rules[f[k]]

\* C21: checkEventAgainstRules(event) returns exactly the stored rules r with
\* evaluateRule(r, event) true, all of them and not only the first, in the
\* order the rules were stored, and leaves the rule set, the rest of the state
\* and the stored snapshot as they were, publishing nothing.
C21_AllMatchesInOrder ==
    [][lastOp'.op = "checkEventAgainstRules" =>
        LET event == lastOp'.arg
            matching == {i \in 1..Len(state.rules) : evaluateRule(state.rules[i], event)}
        IN  /\ IsSelection(lastOp'.ret, state.rules, matching)
            /\ state' = state
            /\ localStorage' = localStorage
            /\ lastOp'.out = <<>>]_vars

\* three stored rules of which the first and the last match, and they differ
C21_Witness ==
    /\ lastOp.op = "checkEventAgainstRules"
    /\ Len(state.rules) = 3
    /\ Len(lastOp.ret) = 2
    /\ lastOp.ret = << state.rules[1], state.rules[3] >>
    /\ state.rules[1] # state.rules[3]

\* the publications of one topic an operation made, in order
PublicationsOf(out, topic) == SelectSeq(out, LAMBDA pb : pb.topic = topic)

\* the entries of a pending collection that hold the event with this identity
EntriesOf(pending, id) == {i \in 1..Len(pending) : pending[i].event.id = id}

\* C22: when an added malicious event matches one or more stored rules, it is
\* marked handled and the score delta is computed exactly once, however many
\* rules match, and rules:triggered is published once carrying all matching
\* rules; when no stored rule matches, the event stays pending and unhandled
\* and neither the score nor rules:triggered is affected.
C22_LiveMatchScoresOnce ==
    [][lastOp'.op = "generate" =>
        LET e == CHOOSE x \in SeqToSet(state'.events) : x.id = lastOp'.arg
            matching == {i \in 1..Len(state.rules) : evaluateRule(state.rules[i], e)}
            pending == state'.pendingMaliciousEvents
            scored == PublicationsOf(lastOp'.out, "score:updated")
            triggered == PublicationsOf(lastOp'.out, "rules:triggered")
        IN  e.category = "malicious" =>
              /\ EntriesOf(pending, e.id) # {}
              /\ IF matching # {}
                 THEN /\ \A i \in EntriesOf(pending, e.id) : pending[i].handled
                      /\ Len(scored) = 1
                      /\ state'.score = state.score + scored[1].data[2]
                      /\ Len(triggered) = 1
                      /\ triggered[1].data[1] = e.id
                      /\ IsSelection(triggered[1].data[2], state.rules, matching)
                 ELSE /\ \A i \in EntriesOf(pending, e.id) : ~pending[i].handled
                      /\ state'.score = state.score
                      /\ Len(scored) = 0
                      /\ Len(triggered) = 0]_vars

\* C23: publish(topic, payload) invokes every handler registered for that
\* topic at that moment exactly once, in subscription order, each with the
\* same payload, and no handler of another topic; on a topic with no
\* subscribers it does nothing and raises no error. The subscriptions are as
\* they were.
C23_PublishFanOut ==
    [][lastOp'.op = "publish" =>
        LET eventName == lastOp'.arg[1]
            data == lastOp'.arg[2]
            registered == IF eventName \in DOMAIN eventBus THEN eventBus[eventName] ELSE <<>>
        IN  /\ lastOp'.ret = "undefined"
            /\ lastOp'.out = [i \in 1..Len(registered) |->
                                 [topic |-> eventName, data |-> data,
                                  callback |-> registered[i]]]
            /\ eventBus' = eventBus]_vars

\* the topics of the publications of an operation, in order
TopicsOf(out) == [i \in 1..Len(out) |-> out[i].topic]

\* C24: when addEvent is called with a malicious event that matches a stored
\* rule, then by the time addEvent returns the entry is marked handled and the
\* score is updated, and the publications occurred in the order event:added,
\* score:updated, event:handled, rules:triggered, each exactly once, within
\* the one step of the generation tick.
C24_NestedFanOut ==
    [][lastOp'.op = "generate" =>
        LET e == CHOOSE x \in SeqToSet(state'.events) : x.id = lastOp'.arg
            pending == state'.pendingMaliciousEvents
            out == lastOp'.out
        IN  (e.category = "malicious"
                /\ \E i \in 1..Len(state.rules) : evaluateRule(state.rules[i], e)) =>
              /\ TopicsOf(out) = <<"event:added", "score:updated", "event:handled",
                                   "rules:triggered">>
              /\ out[1].data[1] = e.id /\ out[3].data[1] = e.id /\ out[4].data[1] = e.id
              /\ EntriesOf(pending, e.id) # {}
              /\ \A i \in EntriesOf(pending, e.id) : pending[i].handled
              /\ state'.score > state.score
              /\ state'.score = out[2].data[1]]_vars

\* C25: addEvent(e) appends e exactly once to the end of the event log, adds
\* exactly one pending entry for e, enqueued now and unhandled unless a handler
\* of event:added handles it within the call, if and only if e is malicious,
\* and publishes event:added exactly once, when e is already in the log and in
\* the pending collection (a subscribed rule engine with a matching rule finds
\* the entry of an event whose key is new); the entries that were there stay
\* in place; noise and false-positive events, the potential_false_positive
\* duplicate of a generation tick included, never enter the pending collection.
C25_AddEvent ==
    /\ [](\A i \in 1..Len(state.pendingMaliciousEvents) :
              state.pendingMaliciousEvents[i].event.category = "malicious")
    /\ [][lastOp'.op = "generate" =>
          LET before == Len(state.events)
              added == SubSeq(state'.events, before + 1, Len(state'.events))
              pending == state.pendingMaliciousEvents
              after == state'.pendingMaliciousEvents
              entries == SubSeq(after, Len(pending) + 1, Len(after))
              malicious == SelectSeq(added, LAMBDA e : e.category = "malicious")
              out == lastOp'.out
          IN  /\ SubSeq(state'.events, 1, before) = state.events
              /\ Len(added) = nextId' - nextId
              /\ \A k \in 1..Len(added) : added[k].id = nextId + k - 1
              /\ Ids(added) = [k \in 1..Len(PublicationsOf(out, "event:added")) |->
                                  PublicationsOf(out, "event:added")[k].data[1]]
              /\ Len(after) = Len(pending) + Len(malicious)
              /\ \A i \in 1..Len(pending) :
                    /\ after[i].event = pending[i].event
                    /\ after[i].timestamp = pending[i].timestamp
              /\ \A k \in 1..Len(entries) :
                    /\ entries[k].event = malicious[k]
                    /\ entries[k].timestamp = now
                    /\ entries[k].handled => entries[k].event.id \in PublishedIds(out, "event:handled")
              /\ \A k \in 1..Len(malicious) :
                    ( /\ "ruleEngine.handleNewEvent" \in SeqToSet(eventBus["event:added"])
                      /\ \E i \in 1..Len(state.rules) : evaluateRule(state.rules[i], malicious[k])
                      /\ \A i \in 1..Len(pending) : ~SameKey(pending[i], malicious[k]) )
                    => entries[k].handled]_vars

\* a tick added a noise event and its potential_false_positive duplicate, and
\* neither is pending
C25_Witness ==
    /\ lastOp.op = "generate"
    /\ Len(state.events) = 2
    /\ state.events[1].category = "noise"
    /\ state.events[2].type = "potential_false_positive"
    /\ state.pendingMaliciousEvents = <<>>
    /\ Len(PublicationsOf(lastOp.out, "event:added")) = 2

\* C26: checkEscalations publishes events:escalated if and only if the
\* escalated list of that sweep is non-empty, at most once per sweep, with a
\* payload that is exactly the unhandled entries whose dwell time reached the
\* timeout, in pending order; entries already marked handled are removed by
\* the sweep without appearing in the payload, whatever their dwell time; the
\* pending collection left behind is the unhandled entries still in time.
C26_EscalationPublication ==
    [][lastOp'.op = "checkEscalations" =>
        LET pending == state.pendingMaliciousEvents
            ids == [i \in 1..Len(pending) |-> pending[i].event.id]
            due == {i \in 1..Len(pending) :
                      ~pending[i].handled /\ now - pending[i].timestamp >= escalationTimeout}
            waiting == {i \in 1..Len(pending) :
                          ~pending[i].handled /\ now - pending[i].timestamp < escalationTimeout}
            published == PublicationsOf(lastOp'.out, "events:escalated")
        IN  /\ Len(published) = IF due = {} THEN 0 ELSE 1
            /\ due # {} => IsSelection(published[1].data, ids, due)
            /\ IsSelection(lastOp'.escalated, ids, due)
            /\ IsSelection(state'.pendingMaliciousEvents, pending, waiting)
            /\ \A i \in 1..Len(pending) :
                  pending[i].handled =>
                      /\ \A k \in 1..Len(published) :
                            pending[i].event.id \notin SeqToSet(published[k].data)
                      /\ \A k \in 1..Len(state'.pendingMaliciousEvents) :
                            state'.pendingMaliciousEvents[k] # pending[i]]_vars

\* a sweep escalated one event and not the one that was handled, with both
\* past the timeout
C26_Witness ==
    /\ lastOp.op = "checkEscalations"
    /\ Len(PublicationsOf(lastOp.out, "events:escalated")) = 1
    /\ Len(state.events) = 2
    /\ \A i \in 1..2 : now - state.events[i].timestamp * 1000 >= escalationTimeout
    /\ state.pendingMaliciousEvents = <<>>
    /\ \E id \in hist.handled : id \notin hist.escalated
    /\ Len(lastOp.escalated) = 1

\* the fallback table of apply-action
FallbackTypes(action) ==
    CASE action = "block_ip" -> {"dns_query", "http_error", "traffic_spike", "sql_injection"}
      [] action = "reboot_server" -> {"service_failure", "process_spawn"}
      [] action = "reset_password" -> {"login_fail", "unauthorized_access"}
      [] OTHER -> {}

\* the catalog's remediation list of an event's type, as the tags it names
Listed(type) ==
    CASE type = "login_fail" -> {"block_ip", "reset_password"}
      [] type = "traffic_spike" -> {"block_ip", "rate_limit"}
      [] type = "process_spawn" -> {"terminate_process", "block_ip"}
      [] type = "dns_query" -> {"block_ip", "blacklist_domain"}
      [] type = "http_error" -> {"patch_vulnerability", "block_ip"}
      [] type = "unauthorized_access" -> {"revoke_access", "reset_password"}
      [] type = "service_failure" -> {"restore_backup", "reboot_server"}
      [] type = "sql_injection" -> {"patch_vulnerability", "block_ip"}
      [] OTHER -> {}

Effective(event, action) ==
    action \in Listed(event.type) \/ event.type \in FallbackTypes(action)

\* an apply-action step left the score, the pending collection with its flags
\* and the stored snapshot alone and reported nothing handled
NothingHandled ==
    /\ state'.score = state.score
    /\ state'.pendingMaliciousEvents = state.pendingMaliciousEvents
    /\ localStorage' = localStorage
    /\ ~Published(lastOp'.out, "event:handled")
    /\ ~Published(lastOp'.out, "score:updated")

\* the event an apply-action step was about
ActedOn == CHOOSE x \in SeqToSet(state.events) : x.id = lastOp'.arg

\* C27: apply-action marks the event handled only if the action tag
\* is in the event's remediation set or in the fallback table; for every other
\* action tag the score, the pending collection and the handled flags are
\* unchanged and event:handled is not published.
C27_OnlyEffectiveActions ==
    [][(lastOp'.op \in ActionTags /\ ~Effective(ActedOn, lastOp'.op)) => NothingHandled]_vars

\* the period of the generation timer for a level number (in thousandths):
\* the base interval times the multiplier of that level's descriptor
LevelPeriod(level) ==
    (baseSimulationInterval * levels[level \div Thousand].eventFrequencyMultiplier) \div 10

\* C28: whenever start() creates the event-generation timer, its period is
\* the base interval (9000 ms) multiplied by the eventFrequencyMultiplier of
\* the level that state.level designates at that moment, after any preceding
\* sequence of level advances, resets and snapshot loads.
C28_TimerPeriod ==
    [][(lastOp'.op = "start" /\ simulationInterval = null /\ simulationInterval' # null) =>
        \E tm \in activeTimers' :
            /\ tm.id = simulationInterval'
            /\ tm.kind = "generation"
            /\ state'.level \in {k * Thousand : k \in 1..Len(levels)}
            /\ tm.period = LevelPeriod(state'.level)]_vars

\* C29: reset() returns the controller to stopped with the state zeroed: from
\* any reachable state, after reset() both timers are inactive, isRunning is
\* false, level = 1, score = 0, uptime = 100, levelProgress = 0, and rules,
\* event log, pending queue and trafficData are empty, and the persisted
\* snapshot holds the same zeroed values.
C29_ResetZeroes ==
    [][(lastOp'.op = "reset"
            /\ "gameController.resetGame" \in SeqToSet(eventBus["ui:resetGame"])) =>
        /\ activeTimers' = {}
        /\ simulationInterval' = null
        /\ escalationCheckInterval' = null
        /\ state'.isRunning = FALSE
        /\ state'.level = 1 * Thousand
        /\ currentLevelIndex' = 0
        /\ state'.score = 0
        /\ state'.uptime = 100
        /\ state'.levelProgress = 0
        /\ state'.rules = <<>>
        /\ state'.events = <<>>
        /\ state'.pendingMaliciousEvents = <<>>
        /\ state'.trafficData = <<>>
        /\ localStorage' # <<>>
        /\ localStorage'[1].parses
        /\ JSONparse(localStorage'[1]) =
              [level |-> 1 * Thousand, score |-> 0, uptime |-> 100, rules |-> <<>>,
               levelProgress |-> 0]]_vars

\* a reset of a game in which an event had been added and handled for points
C29_Witness ==
    /\ lastOp.op = "reset"
    /\ Published(lastOp.out, "gameState:reset")
    /\ nextId > MaxEvents
    /\ hist.handled # {}
    /\ state.events = <<>>
    /\ state.score = 0
    /\ activeTimers = {}

\* ------------------------------------------------------------ lookup misses
\* the rows of the miss runs: login_fail and normal_activity
MissRows == {1, 9}

MissGenerationTick == Generate(MissRows)

\* an event built by the generator that addEvent never received
NeverAdded(t) ==
    generateEvent(0, t, possibleEvents[1], "192.168.0.1", 6, 300, <<>>, <<>>, 0, <<>>, <<>>)

\* the event a direct call is about: a logged one, or the one never added
ArgumentEvent(events, id, t) ==
    IF id = 0
    THEN NeverAdded(t)
    ELSE events[CHOOSE i \in 1..Len(events) : events[i].id = id]

\* gameModel.markEventAsHandled(event), called on its own
MarkEventAsHandled ==
    /\ state.score <= MaxScore
    /\ \E id \in {0} \cup {state.events[i].id : i \in 1..Len(state.events)} :
          \E g \in {markEventAsHandled(Cur, ArgumentEvent(state.events, id, now), now)} :
              Commit(g, "markEventAsHandled", id)
    /\ UNCHANGED <<now, nextId>>

\* the least uptime at which the miss runs call the escalation handler directly
UptimeFloor == 95

\* escalationsController.handleEscalatedEvents({ events: [event] }), called on
\* its own with a logged event of any type
HandleEscalatedEvents ==
    /\ state.uptime >= UptimeFloor
    /\ \E i \in 1..Len(state.events) :
          \E g \in {handleEscalatedEvents(Cur, <<state.events[i]>>)} :
              Commit(g, "handleEscalatedEvents", state.events[i].id)
    /\ UNCHANGED <<now, nextId>>

MissNext ==
    \/ AdvanceClock
    \/ MissGenerationTick
    \/ EscalationCheckTick
    \/ UiStartGame
    \/ UiHandleEvent
    \/ MarkEventAsHandled
    \/ HandleEscalatedEvents

MissSpec == Init /\ [][MissNext]_vars

\* C30: a call of markEventAsHandled on an event that has no pending entry
\* (never added, not malicious, already escalated or already swept) returns
\* false, raises nothing, publishes nothing and leaves the score, the log,
\* the pending collection and the rest of the state as they were; the
\* escalation of an event whose type has no scenario is announced with the
\* default scenario and lowers the uptime by the event's impact all the same.
C30_MissesAreNoOps ==
    [][ /\ ( /\ lastOp'.op = "markEventAsHandled"
             /\ EntriesOf(state.pendingMaliciousEvents, lastOp'.arg) = {}
           ) => /\ lastOp'.ret = FALSE
                /\ lastOp'.out = <<>>
                /\ state' = state
                /\ localStorage' = localStorage
        /\ ( /\ lastOp'.op = "handleEscalatedEvents"
             /\ ArgumentEvent(state.events, lastOp'.arg, now).type
                    \notin escalationScenarios
           ) => LET event == ArgumentEvent(state.events, lastOp'.arg, now)
                IN  /\ lastOp'.out # <<>>
                    /\ lastOp'.out[1] =
                           [topic |-> "escalation:started",
                            data |-> <<event.id, defaultScenario.attackVectorDescription>>]
                    /\ state'.uptime = Max(0, state.uptime - event.severity * 2)
                    /\ state'.uptime < state.uptime
      ]_vars

\* ------------------------------------------------------ storage failures
\* the item and the storage's condition at start
QuotaStarts ==
    { << <<>>, "full" >>,
      << << [parses |-> FALSE, members |-> <<>>] >>, "granted" >>,
      << << JSONstringify(Snapshot, stateToSaveKeys) >>, "denied" >> }

QuotaInit ==
    /\ \E start \in QuotaStarts :
          Started(startApplication([Boot EXCEPT !.localStorage = start[1],
                                                !.storageAccess = start[2]]))
    /\ nextId = MaxEvents

QuotaNext == LevelNext

QuotaSpec == QuotaInit /\ [][QuotaNext]_vars

\* the fields of the state that the snapshot carries
PersistedFields(st) ==
    [level |-> st.level, score |-> st.score, uptime |-> st.uptime, rules |-> st.rules,
     levelProgress |-> st.levelProgress]

IsSaveError(pb) == pb.topic = "notification:error" /\ pb.data = <<"save">>

WithoutSaveErrors(out) == SelectSeq(out, LAMBDA pb : ~IsSaveError(pb))

\* the program before the operation, had its storage been writable
Writable == [Cur EXCEPT !.storageAccess = "granted"]

\* what the operation of the step would have done with a writable storage
WritableOutcomes(op, id) ==
    CASE op = "handleEvent" ->
           { publishCommand(Writable, "ui:handleEvent",
                            [event |-> ArgumentEvent(state.events, id, now),
                             action |-> action], now) : action \in ActionInputs }
      [] op = "saveRule" ->
           { publishCommand(Writable, "ui:saveRule", [rule |-> rule], now) :
                 rule \in RuleInputs }
      [] op = "startNextLevel" -> { startNextLevel(Writable) }
      [] op = "reset" -> { publishCommand(Writable, "ui:resetGame", <<>>, now) }
      [] op = "checkEscalations" -> { checkEscalations(Writable, now) }

\* a read of the snapshot that fails: the storage is denied or the text is
\* not JSON
ReadFails ==
    \/ storageAccess = "denied"
    \/ localStorage # <<>> /\ ~localStorage[1].parses

\* C31: with a storage that rejects writes, handling an event for points,
\* adding a rule, startNextLevel, reset and the escalation sweep do to the
\* in-memory state, the timers and the bus what they do with a writable
\* storage, return the same and publish the same events, plus an error
\* notification for every failed write; the stored item stays as it was, and
\* every step that changes a persisted field publishes the notification. When
\* the read at start fails, the program is initialised at level 1.
C31_PersistenceNeverFatal ==
    /\ ReadFails =>
          /\ state.level = 1 * Thousand
          /\ currentLevelIndex = 0
          /\ settings.eventFrequencyMultiplier = levels[1].eventFrequencyMultiplier
          /\ eventBus["ui:startGame"] = <<"gameController.startSimulation">>
    /\ [][storageAccess # "granted" =>
            /\ localStorage' = localStorage
            /\ PersistedFields(state') # PersistedFields(state) =>
                  \E i \in 1..Len(lastOp'.out) : IsSaveError(lastOp'.out[i])
            /\ lastOp'.op \in {"handleEvent", "saveRule", "startNextLevel", "reset",
                               "checkEscalations"} =>
                  \E g \in WritableOutcomes(lastOp'.op, lastOp'.arg) :
                      /\ state' = g.state
                      /\ currentLevelIndex' = g.currentLevelIndex
                      /\ settings' = g.settings
                      /\ activeTimers' = g.activeTimers
                      /\ eventBus' = g.eventBus
                      /\ lastOp'.ret = g.ret
                      /\ WithoutSaveErrors(lastOp'.out) = g.out
                      /\ (g.localStorage # localStorage =>
                             \E i \in 1..Len(lastOp'.out) : IsSaveError(lastOp'.out[i]))
       ]_vars

\* the player handled an event for points while the storage was full: the
\* score is in memory, the notification was published, the item is not there
C31_Witness ==
    /\ storageAccess = "full"
    /\ lastOp.op = "handleEvent"
    /\ lastOp.ret
    /\ state.score > 0
    /\ \E i \in 1..Len(lastOp.out) : IsSaveError(lastOp.out[i])
    /\ Published(lastOp.out, "score:updated")
    /\ localStorage = <<>>

\* ------------------------------------------------------ template selection
\* the likelihood of each catalog template, in hundredths; no template of the
\* catalog declares level_scaling
likelihood == <<6, 8, 6, 7, 9, 5, 3, 4, 30, 25, 20, 18, 10, 8, 7>>

\* the weight chooseEventTemplate gives the i-th template, in ten-thousandths
TemplateWeight(i, levelSettings) ==
    IF possibleEvents[i].isNoise
    THEN likelihood[i] * (IF levelSettings.noiseEventProbability = 0
                          THEN 100
                          ELSE levelSettings.noiseEventProbability)
    ELSE likelihood[i] * levelSettings.eventFrequencyMultiplier * 10

weightedTemplates(levelSettings) ==
    [i \in 1..Len(possibleEvents) |-> TemplateWeight(i, levelSettings)]

RECURSIVE Reduce(_, _)
Reduce(weights, n) == IF n = 0 THEN 0 ELSE Reduce(weights, n - 1) + weights[n]

totalWeight(levelSettings) ==
    Reduce(weightedTemplates(levelSettings), Len(possibleEvents))

\* variant: the walk stops at the first cumulative weight above the draw
RECURSIVE SelectTemplate_Strict(_, _, _, _)
SelectTemplate_Strict(weights, randomNum, i, weightSum) ==
    IF i > Len(weights)
    THEN 1
    ELSE IF randomNum < 2 * (weightSum + weights[i])
         THEN i
         ELSE SelectTemplate_Strict(weights, randomNum, i + 1, weightSum + weights[i])

\* the for loop of chooseEventTemplate from the i-th template on, and the
\* fallback possibleEvents[0]; randomNum is in halves of a ten-thousandth
RECURSIVE SelectTemplate(_, _, _, _)
SelectTemplate(weights, randomNum, i, weightSum) ==
    IF i > Len(weights)
    THEN 1
    ELSE IF randomNum <= 2 * (weightSum + weights[i])
         THEN i
         ELSE SelectTemplate(weights, randomNum, i + 1, weightSum + weights[i])

\* the index of the template chosen for the draw randomNum = Math.random() * totalWeight
chooseEventTemplate(levelSettings, randomNum) ==
    SelectTemplate(weightedTemplates(levelSettings), randomNum, 1, 0)

\* eventGenerator.chooseEventTemplate(levelSettings) with each level's settings
\* and each draw in [0, totalWeight), once
ChooseEventTemplate ==
    /\ lastOp.op = "idle"
    /\ \E level \in 1..Len(levels) :
          \E randomNum \in 0..(2 * totalWeight(levels[level]) - 1) :
              \E g \in {[Cur EXCEPT !.ret = chooseEventTemplate(levels[level], randomNum)]} :
                  Commit(g, "chooseEventTemplate", <<level, randomNum>>)
    /\ UNCHANGED <<now, nextId>>

SelectSpec == Init /\ [][ChooseEventTemplate]_vars

\* the weight the i-th template is meant to have, in ten-thousandths
Weight(i, level) ==
    LET T == possibleEvents[i]
    IN  IF T.category = "noise"
        THEN likelihood[i] * levels[level].noiseEventProbability
        ELSE likelihood[i] * levels[level].eventFrequencyMultiplier * 10

\* the sum of the weights of the first n templates
RECURSIVE Cumulative(_, _)
Cumulative(n, level) == IF n = 0 THEN 0 ELSE Cumulative(n - 1, level) + Weight(n, level)

\* C32: for every level and every draw r in [0, totalWeight) the template
\* chosen is the first in catalog order whose cumulative weight is at least r;
\* so template T is chosen exactly for the draws in the interval from the
\* cumulative weight before T (excluded, except 0 for the first template) to
\* the cumulative weight with T, whose length is weight(T).
C32_WeightedSelection ==
    lastOp.op = "chooseEventTemplate" =>
        LET level == lastOp.arg[1]
            r == lastOp.arg[2]
            T == lastOp.ret
            n == Len(possibleEvents)
        IN  /\ r < 2 * Cumulative(n, level)
            /\ T \in 1..n
            /\ r <= 2 * Cumulative(T, level)
            /\ \A i \in 1..(T - 1) : r > 2 * Cumulative(i, level)
            /\ T > 1 => r > 2 * Cumulative(T - 1, level)
            /\ Weight(T, level) > 0

\* a draw exactly on the cumulative weight of a template other than the first
\* chose that template
C32_Witness ==
    /\ lastOp.op = "chooseEventTemplate"
    /\ lastOp.ret = 9
    /\ lastOp.arg[2] = 2 * Cumulative(9, lastOp.arg[1])
    /\ lastOp.arg[1] = 3

\* ------------------------------------------------------- traffic samples
\* the most events a traffic run adds between two resets, and in all
MaxTraffic == 103
MaxTrafficIds == 108

\* the generation callback fires one millisecond after the last operation and
\* adds a normal_activity event
TrafficTick ==
    /\ \E tm \in activeTimers : tm.kind = "generation"
    /\ Len(state.events) < MaxTraffic
    /\ nextId <= MaxTrafficIds
    /\ now' = now + 1
    /\ nextId' = nextId + 1
    /\ \E g \in {addEvent(Cur,
                          generateEvent(nextId, now + 1, possibleEvents[9], "192.168.0.1",
                                        6, 300, <<>>, <<>>, 0, <<>>, <<>>),
                          now + 1)} :
          Commit(g, "generate", nextId)

TrafficNext == UiStartGame \/ TrafficTick \/ UiResetGame

TrafficSpec == Init /\ [][TrafficNext]_vars

\* C33: trafficData holds min(number of events added since the last reset,
\* 100) samples; an addEvent below capacity appends its sample, an addEvent at
\* capacity removes exactly the oldest sample, keeps the others in order and
\* appends the new one; the samples are in the order they were taken.
C33_TrafficFifo ==
    /\ [](Len(state.trafficData) = Min(Len(state.events), trafficDataLimit))
    /\ [](\A i \in 1..(Len(state.trafficData) - 1) :
            state.trafficData[i].timestamp < state.trafficData[i + 1].timestamp)
    /\ [][lastOp'.op = "generate" =>
            LET old == state.trafficData
                new == state'.trafficData
                sample == [timestamp |-> now', packetCount |-> 1]
            IN  IF Len(old) < trafficDataLimit
                THEN new = Append(old, sample)
                ELSE /\ Len(new) = trafficDataLimit
                     /\ \A i \in 1..(trafficDataLimit - 1) : new[i] = old[i + 1]
                     /\ new[trafficDataLimit] = sample
                     /\ \A i \in 1..trafficDataLimit : new[i] # old[1]]_vars

\* the 102nd event since a reset was added: the buffer is full and its oldest
\* sample is the third one taken
C33_Witness ==
    /\ lastOp.op = "generate"
    /\ Len(state.events) = trafficDataLimit + 2
    /\ Len(state.trafficData) = trafficDataLimit
    /\ state.trafficData[1].timestamp = state.trafficData[trafficDataLimit].timestamp - 99
    /\ hist.over = FALSE
    /\ nextId > trafficDataLimit + 3

\* ---------------------------------------------------------------- test-rule
\* the most events a test run logs
MaxTested == 11

\* the rows of the test runs: login_fail (count 6) and normal_activity
TestedRows == {1, 9}

\* the rules the player tests
TestedRules ==
    {Rule("login_fail", <<"5">>), Rule("login_fail", <<"9">>), Rule("login_fail", <<"a">>),
     RuleWith("service_failure", "serviceName", <<"f", "i", "r", "e", "w", "a", "l", "l">>)}

\* the generation callback, adding one event
TestTick ==
    /\ \E tm \in activeTimers : tm.kind = "generation"
    /\ Len(state.events) < MaxTested
    /\ nextId' = nextId + 1
    /\ \E n \in TestedRows :
          \E g \in {addEvent(Cur,
                             generateEvent(nextId, now, possibleEvents[n], "192.168.0.1",
                                           6, 300, <<>>, <<>>, 0, <<>>, <<>>),
                             now)} :
              Commit(g, "generate", nextId)
    /\ UNCHANGED now

\* the rule builder's test button
UiTestRule ==
    /\ \E rule \in TestedRules :
          \E g \in {publishCommand(Cur, "ui:testRule", [rule |-> rule], now)} :
              Commit(g, "testRule", 0)
    /\ UNCHANGED <<now, nextId>>

TestNext == UiStartGame \/ TestTick \/ UiTestRule

TestSpec == Init /\ [][TestNext]_vars

\* C34: a test of a rule publishes, within the step, one rule:testResults
\* carrying the rule and exactly the events among the last ten of the log that
\* the rule matches, in log order, and nothing else; the rule set, score,
\* uptime, log, pending collection with its handled flags, the stored
\* snapshot, the timers and the subscriptions are as they were.
C34_TestRuleIsPure ==
    [][lastOp'.op = "testRule" =>
        /\ UNCHANGED <<state, currentLevelIndex, settings, localStorage, simulationInterval,
                       escalationCheckInterval, activeTimers, eventBus, hist>>
        /\ Len(lastOp'.out) = 1
        /\ lastOp'.out[1].topic = "rule:testResults"
        /\ LET rule == lastOp'.out[1].data[1]
               results == lastOp'.out[1].data[2]
               n == Len(state.events)
               recent == {i \in 1..n : i > n - 10}
               matching == {i \in recent : evaluateRule(rule, state.events[i])}
           IN  /\ rule \in TestedRules
               /\ Len(results) = Cardinality(matching)
               /\ \A k \in 1..Len(results) :
                     /\ results[k].rule = rule
                     /\ \E i \in matching :
                           /\ results[k].event = state.events[i]
                           /\ Cardinality({j \in matching : j < i}) = k - 1]_vars

\* a test of a matching rule on a log of eleven events whose oldest one
\* matches too: the result leaves that one out
C34_Witness ==
    /\ lastOp.op = "testRule"
    /\ Len(state.events) = MaxTested
    /\ state.events[1].type = "login_fail"
    /\ lastOp.out[1].data[1] = Rule("login_fail", <<"5">>)
    /\ Len(lastOp.out[1].data[2]) = 3
    /\ \A i \in 1..Len(state.pendingMaliciousEvents) :
          ~state.pendingMaliciousEvents[i].handled
    /\ state.rules = <<>>

\* ------------------------------------------------------- running and timers
\* a timer of the kind is active
TimerActive(kind) == \E tm \in activeTimers : tm.kind = kind

\* C35: after any sequence of start, pause, reset, player actions and
\* startNextLevel, isRunning is true exactly when the generation timer and
\* the sweep timer are both active, and the two timers are both active or
\* both inactive.
C35_RunningIffTimers ==
    /\ state.isRunning <=> (TimerActive("generation") /\ TimerActive("escalationCheck"))
    /\ TimerActive("generation") <=> TimerActive("escalationCheck")

\* ------------------------------------------------- handling is per event
\* C36: markEventAsHandled(b) on an event b that has an unhandled pending
\* entry sets the handled flag of b's own entry and changes the flag of no
\* other entry, also when another pending event a has b's timestamp, type
\* and source ip; and a sweep escalates an entry exactly when it is unhandled
\* and timed out, so a is still escalated and b is not.
C36_HandlingIsPerEvent ==
    [][/\ lastOp'.op = "markEventAsHandled" =>
            LET pending == state.pendingMaliciousEvents
                after == state'.pendingMaliciousEvents
            IN  \A ib \in EntriesOf(pending, lastOp'.arg) :
                   ~pending[ib].handled =>
                      /\ Len(after) = Len(pending)
                      /\ after[ib].handled
                      /\ \A ia \in (1..Len(pending)) \ {ib} :
                            /\ after[ia].event = pending[ia].event
                            /\ after[ia].handled = pending[ia].handled
       /\ lastOp'.op = "checkEscalations" =>
            \A id \in SeqToSet(lastOp'.escalated) : id \notin hist.handled]_vars

\* ------------------------------------------------------ dwell across a pause
\* time passes while the simulation is paused
PausedClock == ~state.isRunning /\ AdvanceClock

\* runs in which the clock moves only during pauses: an entry that is due at
\* a sweep has spent its whole dwell time paused
DwellNext ==
    \/ PausedClock
    \/ GenerationTick
    \/ EscalationCheckTick
    \/ UiStartGame
    \/ UiPauseGame
    \/ UiHandleEvent

DwellSpec == Init /\ [][DwellNext]_vars

\* the ids of the unhandled entries whose age at t has reached the timeout
DueIds(pending, t) ==
    {pending[i].event.id : i \in {j \in 1..Len(pending) :
                                     ~pending[j].handled
                                     /\ t - pending[j].timestamp >= escalationTimeout}}

\* C37: dwell time runs on the wall clock through a pause. A pause and a
\* start leave every pending entry and its enqueue time as they are; a sweep
\* runs only while the simulation is started and escalates exactly the
\* unhandled entries whose age since enqueue has reached escalationTimeout,
\* the time spent paused included; while paused nothing is swept or escalated
\* and the uptime does not drop.
C37_DwellIsWallClock ==
    [][/\ lastOp'.op \in {"pause", "start"} =>
            state'.pendingMaliciousEvents = state.pendingMaliciousEvents
       /\ lastOp'.op = "checkEscalations" =>
            /\ state.isRunning
            /\ SeqToSet(lastOp'.escalated) = DueIds(state.pendingMaliciousEvents, now)
            /\ DueIds(state'.pendingMaliciousEvents, now) = {}
       /\ ~state.isRunning =>
            /\ lastOp'.op \notin {"checkEscalations", "generate"}
            /\ hist'.escalated = hist.escalated
            /\ state'.uptime >= state.uptime]_vars

\* a sweep after a resume escalated an entry enqueued before the pause, at
\* the instant its age reached the timeout
C37_Witness ==
    /\ lastOp.op = "checkEscalations"
    /\ lastOp.escalated # <<>>
    /\ now = escalationTimeout
    /\ state.isRunning
    /\ state.uptime < 100

\* --------------------------------------- handlers that change the bus
\* the function returned by subscribe(eventName, callback):
\* this.events[eventName] = this.events[eventName].filter(cb => cb !== callback);
\* filter on a value that is no array is a TypeError
unsubscribe(g, eventName, callback) ==
    LET found == Lookup(g.eventBus, eventName)
    IN  IF found.kind = "array"
        THEN [g EXCEPT !.eventBus =
                 WithProperty(@, eventName,
                              SelectSeq(found.callbacks, LAMBDA cb : cb # callback))]
        ELSE [g EXCEPT !.thrown = TRUE]

\* the handlers of the fan-out runs: two that record their call, one that
\* subscribes "second" to the topic it is called for, and one that calls the
\* unsubscribe function of "second"
FanCallbacks == {"first", "second", "joiner", "leaver"}

\* callback(data)
CallActing(g, callback, eventName, data) ==
    LET g1 == Call(g, callback, eventName, data)
    IN  CASE callback = "joiner" -> eventBus_subscribe(g1, eventName, "second")
          [] callback = "leaver" -> unsubscribe(g1, eventName, "second")
          [] OTHER -> g1

\* variant: the length is read again at every step, so a handler pushed
\* during the fan-out is visited
RECURSIVE ForEachLive_RereadsLength(_, _, _, _, _, _, _)
ForEachLive_RereadsLength(g, array, current, k, len, eventName, data) ==
    IF g.thrown \/ k > Len(array)
    THEN g
    ELSE LET g1 == CallActing(g, array[k], eventName, data)
             current1 == current /\ array[k] # "leaver"
             array1 == IF current1 /\ ~g1.thrown
                       THEN Lookup(g1.eventBus, eventName).callbacks
                       ELSE array
         IN  ForEachLive_RereadsLength(g1, array1, current1, k + 1, len, eventName, data)

\* Array.prototype.forEach on the array object that events[eventName] held
\* when publish started: len is read once; array is the object's content,
\* which a push changes as long as events[eventName] is still this object
\* (current) and which a filter never changes, as it installs a new array
RECURSIVE ForEachLive(_, _, _, _, _, _, _)
ForEachLive(g, array, current, k, len, eventName, data) ==
    IF g.thrown \/ k > len
    THEN g
    ELSE IF k > Len(array)
    THEN ForEachLive(g, array, current, k + 1, len, eventName, data)
    ELSE LET g1 == CallActing(g, array[k], eventName, data)
             current1 == current /\ array[k] # "leaver"
             array1 == IF current1 /\ ~g1.thrown
                       THEN Lookup(g1.eventBus, eventName).callbacks
                       ELSE array
         IN  ForEachLive(g1, array1, current1, k + 1, len, eventName, data)

\* eventBus.publish with handlers that act on the bus
eventBus_publish_live(g, eventName, data) ==
    LET found == Lookup(g.eventBus, eventName)
    IN  CASE found.kind = "undefined" -> g
          [] found.kind = "array" ->
                ForEachLive(g, found.callbacks, TRUE, 1, Len(found.callbacks), eventName, data)
          [] OTHER -> [g EXCEPT !.thrown = TRUE]

\* the longest handler list of the fan-out runs
MaxFan == 5

FanTopic == "event:added"

\* the number of elements of seq equal to x
Count(seq, x) == Cardinality({i \in 1..Len(seq) : seq[i] = x})

FanSubscribe ==
    /\ \E callback \in FanCallbacks :
          /\ Len(Lookup(eventBus, FanTopic).callbacks) < MaxFan - 1
          /\ \E g \in {Outcome(eventBus_subscribe(Cur, FanTopic, callback))} :
                Commit(g, "subscribe", <<FanTopic, callback>>)
    /\ UNCHANGED <<now, nextId>>

\* a caller invokes the unsubscribe function that subscribe returned
FanUnsubscribe ==
    /\ \E callback \in FanCallbacks :
          \E g \in {Outcome(unsubscribe(Cur, FanTopic, callback))} :
              Commit(g, "unsubscribe", <<FanTopic, callback>>)
    /\ UNCHANGED <<now, nextId>>

FanPublish ==
    /\ Len(Lookup(eventBus, FanTopic).callbacks)
          + Count(Lookup(eventBus, FanTopic).callbacks, "joiner") <= MaxFan
    /\ \E g \in {Outcome(eventBus_publish_live(Cur, FanTopic, "data"))} :
          Commit(g, "publish", <<FanTopic, "data">>)
    /\ UNCHANGED <<now, nextId>>

FanReset ==
    /\ \E g \in {Outcome(eventBus_reset(Cur))} : Commit(g, "busReset", <<FanTopic, "">>)
    /\ UNCHANGED <<now, nextId>>

\* the bus after subscribe(FanTopic, h) for each of the four handlers, so
\* that the unsubscribe function of each has been returned to its caller
FanInit ==
    /\ state = Boot.state
    /\ currentLevelIndex = Boot.currentLevelIndex
    /\ settings = Boot.settings
    /\ localStorage = Boot.localStorage
    /\ storageAccess = Boot.storageAccess
    /\ simulationInterval = Boot.simulationInterval
    /\ escalationCheckInterval = Boot.escalationCheckInterval
    /\ activeTimers = Boot.activeTimers
    /\ eventBus = [t \in {FanTopic} |-> <<"first", "second", "joiner", "leaver">>]
    /\ now = 0
    /\ nextId = 1
    /\ hist = [handled |-> {}, escalated |-> {}, over |-> FALSE]
    /\ lastOp = [Idle EXCEPT !.ret = "undefined", !.arg = <<FanTopic, "">>]

FanNext == FanSubscribe \/ FanUnsubscribe \/ FanPublish \/ FanReset

FanSpec == FanInit /\ [][FanNext]_vars

\* the handlers a publish called, in call order
Called(out) == [i \in 1..Len(out) |-> out[i].callback]

\* the last position of x in seq, 0 when it is not there
LastIndex(seq, x) ==
    IF Count(seq, x) = 0 THEN 0 ELSE CHOOSE i \in 1..Len(seq) :
        seq[i] = x /\ \A j \in (i + 1)..Len(seq) : seq[j] # x

\* C38: the handlers one publish invokes are exactly those registered for the
\* topic when it started, in registration order: a handler subscribed during
\* the fan-out is in the list afterwards but is not invoked by this publish,
\* and a handler unsubscribed during the fan-out is still invoked by this
\* publish and is not in the list afterwards.
C38_FanOutIsFixed ==
    [][lastOp'.op = "publish" =>
        LET before == Lookup(eventBus, FanTopic).callbacks
            after == Lookup(eventBus', FanTopic).callbacks
        IN  /\ lastOp'.ret = "undefined"
            /\ Called(lastOp'.out) = before
            /\ \A h \in FanCallbacks \ {"second"} : Count(after, h) = Count(before, h)
            /\ LastIndex(before, "leaver") > LastIndex(before, "joiner") =>
                  Count(after, "second") = 0
            /\ LastIndex(before, "joiner") > LastIndex(before, "leaver") =>
                  /\ after[Len(after)] = "second"
                  /\ Count(after, "second") > 0
                  /\ LastIndex(before, "leaver") = 0 =>
                        Count(after, "second")
                           = Count(before, "second") + Count(before, "joiner")]_vars

\* a publish on the list leaver, second, joiner: "second" was unsubscribed
\* before its turn and was invoked, was subscribed again after it and was
\* not invoked a second time
C38_Witness ==
    /\ lastOp.op = "publish"
    /\ Called(lastOp.out) = <<"leaver", "second", "joiner">>
    /\ Lookup(eventBus, FanTopic).callbacks = <<"leaver", "joiner", "second">>

\* C39: the unsubscribe function of (topic, h) raises no error, removes h
\* from the topic and keeps the other handlers in their order; called again,
\* or after a reset of the bus, it changes nothing.
C39_UnsubscribeIsSafe ==
    [][lastOp'.op = "unsubscribe" =>
        LET h == lastOp'.arg[2]
            before == Lookup(eventBus, FanTopic).callbacks
            after == Lookup(eventBus', FanTopic).callbacks
        IN  /\ lastOp'.ret = "undefined"
            /\ after = SelectSeq(before, LAMBDA cb : cb # h)
            /\ Lookup(eventBus, FanTopic).kind = "undefined" => eventBus' = eventBus]_vars

\* ------------------------------------------------ snapshot and memory
\* the stored item is the snapshot of the five persisted fields of st
IsSnapshotOf(storage, st) ==
    storage = << JSONstringify(PersistedFields(st), stateToSaveKeys) >>

\* C40: with writable storage, whenever an item is stored it is the snapshot
\* of the in-memory level, score, uptime, rules and levelProgress, and every
\* step that changes one of these fields leaves their snapshot in the storage.
C40_SnapshotEqualsMemory ==
    /\ []((storageAccess = "granted" /\ localStorage # <<>>)
             => IsSnapshotOf(localStorage, state))
    /\ [][(storageAccess = "granted" /\ PersistedFields(state') # PersistedFields(state))
             => IsSnapshotOf(localStorage', state')]_vars

\* the five fields a reload would restore from the stored item
Reloaded(storage) ==
    PersistedFields(loadGameState([Boot EXCEPT !.localStorage = storage]).state)

\* C40, amended: with writable storage, every step that changes level,
\* score, uptime, rules or levelProgress leaves their snapshot in the storage;
\* once the stored item is the snapshot of the in-memory values it stays so;
\* and in every state, also before the first write, loading the stored item
\* restores the in-memory values of the five fields.
C40_SnapshotTracksMemory ==
    /\ [](storageAccess = "granted" => Reloaded(localStorage) = PersistedFields(state))
    /\ [][storageAccess = "granted" =>
             /\ PersistedFields(state') # PersistedFields(state)
                   => IsSnapshotOf(localStorage', state')
             /\ IsSnapshotOf(localStorage, state) => IsSnapshotOf(localStorage', state')]_vars

\* started on a stored object that has a score only, the program has scored
\* a handled event and the storage holds the snapshot of all five fields
C40_Witness ==
    /\ hist.handled # {}
    /\ state.score > 700
    /\ state.rules = <<>>
    /\ state.level = 1 * Thousand
    /\ IsSnapshotOf(localStorage, state)
    /\ Len(localStorage[1].members) = Len(stateToSaveKeys)

====
